---------------------------- MODULE Spec2Model ----------------------------
(***************************************************************************)
(* Podcast-Generator: the job registry of PodcastController and the        *)
(* pipeline of PodcastOrchestrator.generatePodcast, with the TTS stage of  *)
(* TTSAgent and the file operations of AudioService.                       *)
(*                                                                         *)
(* Granularity.  Node runs one continuation at a time; a continuation ends *)
(* at an await on real I/O (a model call, a fetch, speech synthesis, a     *)
(* file write, an ffmpeg or ffprobe run).  One action of this module is    *)
(* one such continuation.  Awaits that only hop through the microtask      *)
(* queue (await import(...), awaiting an async function that did no I/O)   *)
(* are inside the action that contains them.  The return of                *)
(* generatePodcast and the continuation of processGeneration that follows  *)
(* it are kept as two actions so that the moment of the return is a state. *)
(*                                                                         *)
(* File system.  mkdir, writeFile, ffmpeg and ffprobe may fail.  Removing  *)
(* an existing file or directory (unlink, rmSync force) succeeds.          *)
(***************************************************************************)
EXTENDS Integers, Sequences, FiniteSets, TLC

\* The two concurrently submitted jobs, named in the order of their
\* submission; a job's id names its scratch directory {tempDir}/{id} and its
\* outputs {outputDir}/{id}.mp3 and {outputDir}/{id}-artifacts.json.
Jobs == {"A", "B"}

\* Bounds of the explored inputs.
MaxChapters == 1
MaxSections == 3
MaxUtterances == 2
MaxDuration == 1

\* config.performance.maxConcurrentAgents: MAX_CONCURRENT_AGENTS of the
\* environment (the default is 5); explored here with a small setting so
\* that an outline of MaxSections sections needs more than one batch.
maxConcurrentAgents == 2

VARIABLES
  status,          \* activeGenerations.get(id).status; "none": no entry
  pc,              \* where the job's generatePodcast / processGeneration is
  currentStep,     \* generation.currentStep
  stepsCompleted,  \* generation.stepsCompleted
  inflight,        \* section positions whose ScriptAgent.execute is pending
  local,           \* the locals of generatePodcast and of the calls it awaits
  ttsTempDir,      \* this.tempDir of the one TTSAgent instance
  dirs,            \* scratch directories that exist on disk
  files,           \* MP3 files that exist in scratch directories
  finalMp3,        \* jobs whose {outputDir}/{id}.mp3 exists
  artifactsFile,   \* jobs whose {outputDir}/{id}-artifacts.json exists
  metadata,        \* generation.metadata
  error,           \* generation.error
  cancelledDuring, \* history: "script" when the job's cancel was accepted
                   \* while step 4 was in progress
  chat,            \* one BaseAgent.chatComplete call, studied on its own
  gen,             \* one generateScriptsInParallel call, studied on its own
  loop,            \* one word-count loop of ScriptAgent or EditorAgent
  res,             \* step 2 of generatePodcast for one job, studied on its own
  toneRun,         \* one model response parsed by ToneAgent, studied on its own
  tts,             \* one TTSAgent.execute call and step 8 after it, studied on its own
  failure,         \* one failing job from the throw to GET /status, studied on its own
  submit           \* one POST /generate request, studied on its own

vars == <<status, pc, currentStep, stepsCompleted, inflight, local,
          ttsTempDir, dirs, files, finalMp3, artifactsFile, metadata, error,
          cancelledDuring, chat, gen, loop,
          res, toneRun,
          tts,
          failure,
          submit>>

Terminal == {"completed", "failed", "cancelled"}

NoMeta == [duration |-> 0]

\* The locals before they are assigned, and after their scope was left:
\*   sections        outline.sections.length
\*   batchNo         position of the for-of loop over the batches
\*   scripts         const scripts = [] of generateScriptsInParallel
\*   utterances      toneEnhancedScript.utterances (their indices)
\*   chapters        ttsInput.chapters, the chapters of the request
\*   chapter, pos    i + 1 of the chapter loop, position in chapterUtterances
\*   utteranceFiles  utteranceFiles of generateUtteranceAudioFiles
\*   audioFiles      audioFiles of TTSAgent.execute
\*   path            audioPath / outputPath of the pending write
\*   totalDuration   const totalDuration of generatePodcast
\*   thrown          the error caught, then thrown, by generatePodcast
NoLocal == [sections |-> 0, batchNo |-> 0, scripts |-> <<>>,
            utterances |-> <<>>, chapters |-> 0, chapter |-> 0, pos |-> 0,
            utteranceFiles |-> <<>>, audioFiles |-> <<>>, path |-> <<>>,
            totalDuration |-> 0, thrown |-> "none"]

\* No chatComplete call was made yet.
\*   agentId    this.agentId is set (the role's agent id is configured)
\*   available  foundryClient.isAvailable()
\*   pc         "request": a chat-completion request is pending at the backend
\*   site       the getChatCompletion call the pending request belongs to
\*   attempt    let attempt of getChatCompletion
\*   requests   history: chat-completion requests sent to the backend so far
\*   first      history: the outcome of the first request
\*   runFailed  history: createAndProcessRun returned a run with status failed
\*   openAIFailed  history: chatCompleteWithOpenAI calls that threw
\*   result     whose response chatComplete returned
\*   useFoundryAgents  config.agents.useFoundryAgents:
\*                     process.env.USE_FOUNDRY_AGENTS !== 'false'
NoChat == [agentId |-> FALSE, available |-> FALSE, useFoundryAgents |-> TRUE,
           pc |-> "idle",
           site |-> "none", attempt |-> 0, requests |-> 0, first |-> "none",
           runFailed |-> FALSE, openAIFailed |-> 0, result |-> "none"]

\* generateScriptsInParallel was not called yet.
\*   chapters, durationMin  of the request
\*   sections      outline.sections, each with its type and number
\*   batchNo       position of the for-of loop over the batches
\*   pending       positions in the batch whose promise is pending
\*   settled       the values the promises of the batch resolved to, by
\*                 position in the batch ("none": not yet)
\*   arrival       history: the positions in the order their promises resolved
\*   scripts       const scripts
\*   calls         history: the scriptInput of every ScriptAgent.execute call
NoGen == [pc |-> "idle", chapters |-> 0, durationMin |-> 0, sections |-> <<>>,
          batchNo |-> 0, pending |-> {}, settled |-> <<>>, arrival |-> <<>>,
          scripts |-> <<>>, calls |-> <<>>]

\* No word-count loop was entered yet.
\*   agent       "script": generateScriptWithWordCount, "editor": editForWordCount
\*   attempt     let attempt of the for loop
\*   calls       history: chatComplete calls made so far
\*   wordCounts  history: countSpokenWords of every response, in call order
\*   returned    the call whose response was returned (0: none)
\*   content     finalScript.content of EditorAgent.execute ({}: not extracted)
\*   warnings    history: what validateFinalScript logged with logger.warn
\*   accuracy    metadata.accuracy ("none": metadata not built)
NoLoop == [pc |-> "idle", agent |-> "none", targetWords |-> 0,
           tolerance |-> 0, attempt |-> 0, calls |-> 0, wordCounts |-> <<>>,
           returned |-> 0, content |-> {}, warnings |-> {},
           accuracy |-> "none"]

\* Step 2 was not entered yet.
\*   source         the request's source: "none", "url" or "file"
\*   contentType    the content type of the HTTP response
\*   sourceContent  let sourceContent ({}: null, or what fetchContent returned)
\*   research       let research ({}: null, or the research notes)
\*   fetchFailed    history: fetchContent threw
\*   fetchError     history: the message of the error fetchContent threw
\*   modelCalls     history: ResearchAgent.execute calls made
\*   thrown         the error that reached the catch block of generatePodcast
NoRes == [pc |-> "idle", source |-> "none", contentType |-> "none",
          sourceContent |-> {}, research |-> {},
          fetchFailed |-> FALSE, fetchError |-> "none", modelCalls |-> 0,
          thrown |-> "none"]

\* ToneAgent.execute has no response yet.
\*   content     enhancedScript.content, as a sequence of tokens
\*   utterances  const utterances of execute
NoToneRun == [pc |-> "idle", content |-> <<>>, utterances |-> <<>>]

\* TTSAgent.execute was not called yet.
\*   utterances      processedUtterances, each with its index and speaker
\*   chapters        ttsInput.chapters
\*   chapter, pos    i + 1 of the chapter loop, position in chapterUtterances
\*   utteranceFiles  utteranceFiles of generateUtteranceAudioFiles
\*   audioFiles      audioFiles of execute (the chapter files' paths)
\*   speechCalls     history: the generateSpeech calls issued
\*   concatCalls     history: the concatenateAudio calls issued
\*   chapterFiles    history: the chapter files ffmpeg wrote
\*   jingle          what existsSync(jinglePath) returned in step 8
\*   finalMp3        {outputDir}/{id}.mp3 exists
\*   thrown          the error generatePodcast rethrows
\*   finalScript     const finalScript of step 6: the dialogue lines of its
\*                   content and its wordCount
NoTts == [pc |-> "idle", finalScript |-> [lines |-> <<>>, wordCount |-> 0],
          utterances |-> <<>>, chapters |-> 0, chapter |-> 0,
          pos |-> 0, utteranceFiles |-> <<>>, audioFiles |-> <<>>,
          speechCalls |-> <<>>, concatCalls |-> <<>>, chapterFiles |-> <<>>,
          jingle |-> "unread", finalMp3 |-> FALSE, thrown |-> "none"]

\* No error was thrown in the job's pipeline yet.
\*   origin      history: where in generatePodcast the error came from
\*   thrown      the error object on its way up (empty: none)
\*   generation  the fields of activeGenerations.get(id) that getStatus reads
\*   response    the body of the last GET /status/:id response (empty: none)
\*   now         the clock new Date() reads
\*   cancels     history: DELETE /generation/:id requests handled
\*   cancelResponse  the body of the last response to such a request
NoFailure == [pc |-> "running", origin |-> "none", thrown |-> {},
              generation |-> [status |-> "processing", error |-> {},
                              completedAt |-> {}],
              response |-> {}, now |-> 0, cancels |-> 0,
              cancelResponse |-> {}]

\* No POST /generate request arrived yet.
\*   brief       req.body: each field is absent ({}) or holds one value; topic
\*               and focus stand for their lengths
\*   errors      the fields validationResult(req) reports
\*   generations the ids in activeGenerations
\*   started     processGeneration was called
\*   response    the HTTP status sent
\*   rejectedBy  the agents whose validateInput throws for the job's request
NoSubmit == [pc |-> "idle", brief |-> {}, errors |-> {}, generations |-> {},
             started |-> FALSE, response |-> 0,
             rejectedBy |-> {}]

Min(a, b) == IF a < b THEN a ELSE b
Ceil(a, b) == (a + b - 1) \div b
Range(s) == {s[i] : i \in 1..Len(s)}

-----------------------------------------------------------------------------
(* Pure helpers *)

\* items.slice(from, to) with 0-based from, exclusive to
Slice(items, from, to) == SubSeq(items, from + 1, Min(to, Len(items)))

\* Variant of createBatches: the whole list as a single batch
createBatches_Unbounded(items, batchSize) == <<items>>

\* PodcastOrchestrator.createBatches
createBatches(items, batchSize) ==
  [b \in 1..Ceil(Len(items), batchSize) |->
      Slice(items, (b - 1) * batchSize, (b - 1) * batchSize + batchSize)]

\* The outline's sections, by position 1..n
SectionSeq(n) == [i \in 1..n |-> i]

\* TTSAgent.groupUtterancesByChapters
groupUtterancesByChapters(utts, chapters) ==
  LET utterancesPerChapter == Ceil(Len(utts), chapters)
      chapterUtterances(i) ==
        Slice(utts, i * utterancesPerChapter,
              Min(i * utterancesPerChapter + utterancesPerChapter, Len(utts)))
      groups == SelectSeq([i \in 1..chapters |-> chapterUtterances(i - 1)],
                          LAMBDA g : Len(g) > 0)
      missing == IF Len(utts) > 0 THEN chapters - Len(groups) ELSE 0
  IN  groups \o [k \in 1..missing |-> <<>>]

\* join(dir, `chapter-${chapter}-utterance-${index}-${timestamp}.mp3`) and
\* join(dir, `chapter-${chapter}-combined-${timestamp}.mp3`): the job stands
\* for the timestamp that keeps the names of different calls apart.
ScratchFile(dir, job, kind, chapter, index) ==
  [dir |-> dir, job |-> job, kind |-> kind, chapter |-> chapter, index |-> index]

\* rmSync(podcastTempDir, { recursive: true, force: true })
FilesAfterRm(dir) == {f \in files : f.dir # dir}

-----------------------------------------------------------------------------
\* no job was submitted yet
JobsInit ==
  /\ status = [j \in Jobs |-> "none"]
  /\ pc = [j \in Jobs |-> "idle"]
  /\ currentStep = [j \in Jobs |-> "none"]
  /\ stepsCompleted = [j \in Jobs |-> 0]
  /\ inflight = [j \in Jobs |-> {}]
  /\ local = [j \in Jobs |-> NoLocal]
  /\ ttsTempDir = "unset"
  /\ dirs = {}
  /\ files = {}
  /\ finalMp3 = {}
  /\ artifactsFile = {}
  /\ metadata = [j \in Jobs |-> NoMeta]
  /\ error = [j \in Jobs |-> "none"]
  /\ cancelledDuring = [j \in Jobs |-> "none"]

Init ==
  /\ JobsInit
  /\ chat = NoChat
  /\ gen = NoGen
  /\ loop = NoLoop
  /\ res = NoRes
  /\ toneRun = NoToneRun
  /\ tts = NoTts
  /\ failure = NoFailure
  /\ submit = NoSubmit

-----------------------------------------------------------------------------
(* Variable groups *)
registryVars == <<status, metadata, error, cancelledDuring>>
progressVars == <<currentStep, stepsCompleted>>
fsVars == <<dirs, files, finalMp3, artifactsFile>>
jobVars == <<status, pc, currentStep, stepsCompleted, inflight, local,
             ttsTempDir, dirs, files, finalMp3, artifactsFile, metadata, error,
             cancelledDuring>>
\* the parts of the program that are studied one call at a time
unitVars == <<chat, gen, loop, res, toneRun,
             tts,
             failure,
             submit>>

\* generation.totalSteps, and the total every updateProgress call passes
totalSteps == 7

\* Variant of updateProgress: the stored count wraps at the total
updateProgress_Wrapped(j, step, completed) ==
  /\ currentStep' = [currentStep EXCEPT ![j] = step]
  /\ stepsCompleted' = [stepsCompleted EXCEPT ![j] = completed % totalSteps]

\* PodcastOrchestrator.updateProgress with the callback of processGeneration:
\* generation.currentStep = step; generation.stepsCompleted = progress.completed
updateProgress(j, step, completed) ==
  /\ currentStep' = [currentStep EXCEPT ![j] = step]
  /\ stepsCompleted' = [stepsCompleted EXCEPT ![j] = completed]

\* Variant of Raise: the error is noted but the step is not left
Raise_Swallowed(j, err) ==
  /\ local' = [local EXCEPT ![j].thrown = err]
  /\ UNCHANGED pc

\* control reaches the catch block of generatePodcast with the given error;
\* the locals of the try block are out of scope
Raise(j, err) ==
  /\ pc' = [pc EXCEPT ![j] = "catch"]
  /\ local' = [local EXCEPT ![j] = [NoLocal EXCEPT !.thrown = err]]

\* the pipeline step a position of generatePodcast belongs to (0: none)
StepOf(p) ==
  CASE p = "planner" -> 1
    [] p \in {"fetch", "research"} -> 2
    [] p = "outline" -> 3
    [] p = "script" -> 4
    [] p = "tone" -> 5
    [] p = "editor" -> 6
    [] p \in {"speech", "write", "chapterConcat"} -> 7
    [] p \in {"concat", "probe", "save"} -> 8
    [] OTHER -> 0

-----------------------------------------------------------------------------
(* PodcastController *)

\* POST /generate with a valid brief: the entry is stored with status
\* 'queued'; processGeneration
\* is called in the same turn and sets 'processing' before its first await,
\* so 'queued' is never visible to another handler.  generatePodcast has
\* reached its first await (import('fs')).
Submit(j) ==
  /\ pc[j] = "idle"
  /\ status[j] = "none"
  /\ j = "A" \/ status["A"] # "none"
  /\ status' = [status EXCEPT ![j] = "processing"]
  /\ currentStep' = [currentStep EXCEPT ![j] = "initializing"]
  /\ stepsCompleted' = [stepsCompleted EXCEPT ![j] = 0]
  /\ pc' = [pc EXCEPT ![j] = "setup"]
  /\ UNCHANGED <<metadata, error, cancelledDuring, inflight, local, ttsTempDir,
                 fsVars>>
  /\ UNCHANGED unitVars

\* DELETE /generation/:id
cancelGeneration(j) ==
  /\ status[j] # "none"
  /\ ~(status[j] = "completed" \/ status[j] = "failed")
  /\ status' = [status EXCEPT ![j] = "cancelled"]
  /\ cancelledDuring' = [cancelledDuring EXCEPT ![j] =
                           IF status[j] # "cancelled" /\ StepOf(pc[j]) = 4
                             THEN "script" ELSE @]
  /\ UNCHANGED <<pc, progressVars, inflight, local, ttsTempDir, fsVars,
                 metadata, error>>
  /\ UNCHANGED unitVars

\* processGeneration after generatePodcast returned its result
Complete(j) ==
  /\ pc[j] = "returned"
  /\ status' = [status EXCEPT ![j] = "completed"]
  /\ metadata' = [metadata EXCEPT ![j] = [duration |-> local[j].totalDuration]]
  /\ pc' = [pc EXCEPT ![j] = "done"]
  /\ local' = [local EXCEPT ![j] = NoLocal]
  /\ UNCHANGED <<progressVars, inflight, ttsTempDir, fsVars, error,
                 cancelledDuring>>
  /\ UNCHANGED unitVars

\* Variant of Fail: the rejection of processGeneration is not handled
Fail_Unhandled(j) ==
  /\ pc[j] = "thrown"
  /\ pc' = [pc EXCEPT ![j] = "done"]
  /\ local' = [local EXCEPT ![j] = NoLocal]
  /\ UNCHANGED <<registryVars, progressVars, inflight, ttsTempDir, fsVars>>
  /\ UNCHANGED unitVars

\* the .catch handler of generatePodcast(req, res), after processGeneration
\* rethrew the error of generatePodcast
Fail(j) ==
  /\ pc[j] = "thrown"
  /\ status' = [status EXCEPT ![j] = "failed"]
  /\ error' = [error EXCEPT ![j] = local[j].thrown]
  /\ pc' = [pc EXCEPT ![j] = "done"]
  /\ local' = [local EXCEPT ![j] = NoLocal]
  /\ UNCHANGED <<progressVars, inflight, ttsTempDir, fsVars, metadata,
                 cancelledDuring>>
  /\ UNCHANGED unitVars

-----------------------------------------------------------------------------
(* PodcastOrchestrator.generatePodcast, steps 1 to 6 *)

\* mkdirSync(podcastTempDir) before the try block, then step 1 begins
Setup(j, ok) ==
  /\ pc[j] = "setup"
  /\ IF ok
       THEN /\ dirs' = dirs \cup {j}
            /\ updateProgress(j, "planning", 1)
            /\ pc' = [pc EXCEPT ![j] = "planner"]
            /\ UNCHANGED local
       ELSE /\ pc' = [pc EXCEPT ![j] = "thrown"]
            /\ local' = [local EXCEPT ![j].thrown = "setup"]
            /\ UNCHANGED <<dirs, progressVars>>
  /\ UNCHANGED <<registryVars, inflight, ttsTempDir, files, finalMp3,
                 artifactsFile>>
  /\ UNCHANGED unitVars

\* planner.execute returned; step 2 begins with the fetch when the request
\* has a source (request.source is read here and nowhere else)
PlannerDone(j, source) ==
  /\ pc[j] = "planner"
  /\ updateProgress(j, "research", 2)
  /\ pc' = [pc EXCEPT ![j] = IF source THEN "fetch" ELSE "research"]
  /\ UNCHANGED <<registryVars, inflight, local, ttsTempDir, fsVars>>
  /\ UNCHANGED unitVars

\* contentFetcher.fetchContent returned: the wrapper becomes the research
FetchDone(j) ==
  /\ pc[j] = "fetch"
  /\ updateProgress(j, "outlining", 3)
  /\ pc' = [pc EXCEPT ![j] = "outline"]
  /\ UNCHANGED <<registryVars, inflight, local, ttsTempDir, fsVars>>
  /\ UNCHANGED unitVars

\* fetchContent threw: sourceContent = null, research.execute is called
FetchFails(j) ==
  /\ pc[j] = "fetch"
  /\ pc' = [pc EXCEPT ![j] = "research"]
  /\ UNCHANGED <<registryVars, progressVars, inflight, local,
                 ttsTempDir, fsVars>>
  /\ UNCHANGED unitVars

ResearchDone(j) ==
  /\ pc[j] = "research"
  /\ updateProgress(j, "outlining", 3)
  /\ pc' = [pc EXCEPT ![j] = "outline"]
  /\ UNCHANGED <<registryVars, inflight, local, ttsTempDir, fsVars>>
  /\ UNCHANGED unitVars

\* outline.execute returned n sections; step 4 begins:
\* generateScriptsInParallel issues the calls of the first batch
OutlineDone(j, n) ==
  /\ pc[j] = "outline"
  /\ updateProgress(j, "scripting", 4)
  /\ IF n = 0
       THEN /\ Raise(j, "script")
            /\ UNCHANGED inflight
       ELSE /\ local' = [local EXCEPT ![j].sections = n, ![j].batchNo = 1]
            /\ inflight' = [inflight EXCEPT ![j] =
                   Range(createBatches(SectionSeq(n), maxConcurrentAgents)[1])]
            /\ pc' = [pc EXCEPT ![j] = "script"]
  /\ UNCHANGED <<registryVars, ttsTempDir, fsVars>>
  /\ UNCHANGED unitVars

\* one ScriptAgent.execute resolved.  When it was the last of its batch,
\* Promise.all resolves, the results are pushed and the next batch is issued,
\* or step 5 begins.  A call that outlived a failed batch resolves unobserved.
ScriptCallDone(j, i) ==
  /\ i \in inflight[j]
  /\ LET l == local[j]
         batches == createBatches(SectionSeq(l.sections), maxConcurrentAgents)
         rest == inflight[j] \ {i}
     IN IF pc[j] = "script" /\ rest = {}
          THEN IF l.batchNo < Len(batches)
                 THEN /\ local' = [local EXCEPT
                            ![j].scripts = l.scripts \o batches[l.batchNo],
                            ![j].batchNo = l.batchNo + 1]
                      /\ inflight' = [inflight EXCEPT ![j] =
                                         Range(batches[l.batchNo + 1])]
                      /\ UNCHANGED <<pc, progressVars>>
                 ELSE /\ local' = [local EXCEPT
                            ![j].scripts = l.scripts \o batches[l.batchNo]]
                      /\ inflight' = [inflight EXCEPT ![j] = {}]
                      /\ updateProgress(j, "tone-enhancement", 5)
                      /\ pc' = [pc EXCEPT ![j] = "tone"]
          ELSE /\ inflight' = [inflight EXCEPT ![j] = rest]
               /\ UNCHANGED <<pc, progressVars, local>>
  /\ UNCHANGED <<registryVars, ttsTempDir, fsVars>>
  /\ UNCHANGED unitVars

\* one ScriptAgent.execute rejected: Promise.all rejects at once and the
\* for-of loop is left; the other calls of the batch stay pending.
ScriptCallFails(j, i) ==
  /\ i \in inflight[j]
  /\ inflight' = [inflight EXCEPT ![j] = @ \ {i}]
  /\ IF pc[j] = "script" THEN Raise(j, "script") ELSE UNCHANGED <<pc, local>>
  /\ UNCHANGED <<registryVars, progressVars, ttsTempDir, fsVars>>
  /\ UNCHANGED unitVars

\* tone.execute returned n utterances (validateToneEnhancement rejects none);
\* the outline and the scripts are not read again
ToneDone(j, n) ==
  /\ pc[j] = "tone"
  /\ updateProgress(j, "editing", 6)
  /\ local' = [local EXCEPT ![j] =
                 [NoLocal EXCEPT !.utterances = [k \in 1..n |-> k - 1]]]
  /\ pc' = [pc EXCEPT ![j] = "editor"]
  /\ UNCHANGED <<registryVars, inflight, ttsTempDir, fsVars>>
  /\ UNCHANGED unitVars

\* planner, research, outline, tone or editor .execute threw
AgentFails(j) ==
  /\ pc[j] \in {"planner", "research", "outline", "tone", "editor"}
  /\ Raise(j, pc[j])
  /\ UNCHANGED <<registryVars, progressVars, inflight, ttsTempDir,
                 fsVars>>
  /\ UNCHANGED unitVars

-----------------------------------------------------------------------------
(* Cleanup *)

\* Variant of cleanup: only the artifact file is unlinked
cleanup_KeepsMp3(j) ==
  /\ artifactsFile' = artifactsFile \ {j}
  /\ UNCHANGED finalMp3

\* PodcastOrchestrator.cleanup(id): unlink {id}.mp3 and {id}-artifacts.json
\* when they exist; the third path holds a literal '*' and never exists.
cleanup(j) ==
  /\ finalMp3' = finalMp3 \ {j}
  /\ artifactsFile' = artifactsFile \ {j}

\* Variant of cleanupPodcastTempDir: the directory is left in place
cleanupPodcastTempDir_Skipped(j) ==
  UNCHANGED <<dirs, files>>

\* PodcastOrchestrator.cleanupPodcastTempDir(podcastTempDir)
cleanupPodcastTempDir(j) ==
  /\ dirs' = dirs \ {j}
  /\ files' = FilesAfterRm(j)

-----------------------------------------------------------------------------
(* Step 7: TTSAgent.execute on the TTSAgent instance all jobs share *)

\* const chapterGroups of TTSAgent.execute
chapterGroups(j) ==
  groupUtterancesByChapters(local[j].utterances, local[j].chapters)

\* editor.execute returned; step 7 begins with the request's chapters (read
\* here for the first time) in ttsInput.  execute stores the job's scratch
\* directory in this.tempDir, groups the utterances and enters the chapter
\* loop: generateChapterAudio throws on an empty group, otherwise the first
\* generateSpeech call of generateUtteranceAudioFiles is issued.
EditorDone(j, chapters) ==
  /\ pc[j] = "editor"
  /\ updateProgress(j, "audio-generation", 7)
  /\ ttsTempDir' = j
  /\ IF Len(groupUtterancesByChapters(local[j].utterances, chapters)[1]) = 0
       THEN Raise(j, "tts")
       ELSE /\ local' = [local EXCEPT ![j].chapters = chapters,
                                      ![j].chapter = 1, ![j].pos = 1]
            /\ pc' = [pc EXCEPT ![j] = "speech"]
  /\ UNCHANGED <<registryVars, inflight, fsVars>>
  /\ UNCHANGED unitVars

\* generateSingleUtteranceAudio: generateSpeech resolved; the path is built
\* from this.tempDir as it is now, and writeFile is issued
SpeechDone(j) ==
  /\ pc[j] = "speech"
  /\ local' = [local EXCEPT ![j].path =
                 ScratchFile(ttsTempDir, j, "utterance", local[j].chapter,
                             chapterGroups(j)[local[j].chapter][local[j].pos])]
  /\ pc' = [pc EXCEPT ![j] = "write"]
  /\ UNCHANGED <<registryVars, progressVars, inflight, ttsTempDir,
                 fsVars>>
  /\ UNCHANGED unitVars

SpeechFails(j) ==
  /\ pc[j] = "speech"
  /\ Raise(j, "tts")
  /\ UNCHANGED <<registryVars, progressVars, inflight, ttsTempDir,
                 fsVars>>
  /\ UNCHANGED unitVars

\* writeFile resolved (its directory exists).  After the chapter's last
\* utterance, concatenateUtteranceAudio builds the output path from
\* this.tempDir, makes sure that directory exists, and
\* AudioService.concatenateAudio rejects when an input file is missing,
\* otherwise ffmpeg runs.
WriteDone(j) ==
  /\ pc[j] = "write"
  /\ local[j].path.dir \in dirs
  /\ LET l == local[j]
         written == files \cup {l.path}
         inputs == Append(l.utteranceFiles, l.path)
         outputPath == ScratchFile(ttsTempDir, j, "chapter", l.chapter, 0)
     IN /\ files' = written
        /\ IF l.pos < Len(chapterGroups(j)[l.chapter])
             THEN /\ local' = [local EXCEPT ![j].utteranceFiles = inputs,
                                            ![j].pos = l.pos + 1,
                                            ![j].path = <<>>]
                  /\ pc' = [pc EXCEPT ![j] = "speech"]
                  /\ UNCHANGED dirs
             ELSE /\ dirs' = dirs \cup {ttsTempDir}
                  /\ IF Range(inputs) \subseteq written
                       THEN /\ local' = [local EXCEPT
                                            ![j].utteranceFiles = inputs,
                                            ![j].path = outputPath]
                            /\ pc' = [pc EXCEPT ![j] = "chapterConcat"]
                       ELSE Raise(j, "tts")
  /\ UNCHANGED <<registryVars, progressVars, inflight, ttsTempDir,
                 finalMp3, artifactsFile>>
  /\ UNCHANGED unitVars

\* writeFile rejected (missing directory, disk error)
WriteFails(j) ==
  /\ pc[j] = "write"
  /\ Raise(j, "tts")
  /\ UNCHANGED <<registryVars, progressVars, inflight, ttsTempDir,
                 fsVars>>
  /\ UNCHANGED unitVars

\* ffmpeg wrote the chapter file.  The loop goes on with the next chapter, or
\* execute returns and step 8 begins: the final concatenateAudio rejects when
\* a chapter file is missing, otherwise ffmpeg runs.
ChapterConcatDone(j) ==
  /\ pc[j] = "chapterConcat"
  /\ local[j].path.dir \in dirs
  /\ LET l == local[j]
         written == files \cup {l.path}
         audioFiles == Append(l.audioFiles, l.path)
     IN /\ files' = written
        /\ IF l.chapter < Len(chapterGroups(j))
             THEN /\ UNCHANGED progressVars
                  /\ IF Len(chapterGroups(j)[l.chapter + 1]) = 0
                       THEN Raise(j, "tts")
                       ELSE /\ local' = [local EXCEPT
                                           ![j].audioFiles = audioFiles,
                                           ![j].utteranceFiles = <<>>,
                                           ![j].path = <<>>,
                                           ![j].chapter = l.chapter + 1,
                                           ![j].pos = 1]
                            /\ pc' = [pc EXCEPT ![j] = "speech"]
             ELSE /\ updateProgress(j, "audio-stitching", 7)
                  /\ IF Range(audioFiles) \subseteq written
                       THEN /\ local' = [local EXCEPT ![j] =
                                 [NoLocal EXCEPT !.audioFiles = audioFiles]]
                            /\ pc' = [pc EXCEPT ![j] = "concat"]
                       ELSE Raise(j, "concat")
  /\ UNCHANGED <<registryVars, inflight, ttsTempDir, dirs, finalMp3,
                 artifactsFile>>
  /\ UNCHANGED unitVars

ChapterConcatFails(j) ==
  /\ pc[j] = "chapterConcat"
  /\ Raise(j, "tts")
  /\ UNCHANGED <<registryVars, progressVars, inflight, ttsTempDir,
                 fsVars>>
  /\ UNCHANGED unitVars

-----------------------------------------------------------------------------
(* Step 8 and the exits of generatePodcast *)

\* ffmpeg wrote {outputDir}/{id}.mp3; getAudioDuration starts ffprobe
ConcatDone(j) ==
  /\ pc[j] = "concat"
  /\ finalMp3' = finalMp3 \cup {j}
  /\ pc' = [pc EXCEPT ![j] = "probe"]
  /\ local' = [local EXCEPT ![j] = NoLocal]
  /\ UNCHANGED <<registryVars, progressVars, inflight, ttsTempDir,
                 dirs, files, artifactsFile>>
  /\ UNCHANGED unitVars

\* ffmpeg failed; it may have left a partial output file
ConcatFails(j, partial) ==
  /\ pc[j] = "concat"
  /\ finalMp3' = IF partial THEN finalMp3 \cup {j} ELSE finalMp3
  /\ Raise(j, "concat")
  /\ UNCHANGED <<registryVars, progressVars, inflight, ttsTempDir,
                 dirs, files, artifactsFile>>
  /\ UNCHANGED unitVars

\* ffprobe reported the duration; the metadata is built and saveArtifacts
\* issues its writeFile
ProbeDone(j, d) ==
  /\ pc[j] = "probe"
  /\ local' = [local EXCEPT ![j].totalDuration = d]
  /\ pc' = [pc EXCEPT ![j] = "save"]
  /\ UNCHANGED <<registryVars, progressVars, inflight, ttsTempDir,
                 fsVars>>
  /\ UNCHANGED unitVars

\* Variant of ProbeFails: the ffprobe error is dropped and the job goes on
\* without a duration
ProbeFails_Ignored(j) ==
  /\ pc[j] = "probe"
  /\ pc' = [pc EXCEPT ![j] = "save"]
  /\ UNCHANGED <<registryVars, progressVars, inflight, local,
                 ttsTempDir, fsVars>>
  /\ UNCHANGED unitVars

ProbeFails(j) ==
  /\ pc[j] = "probe"
  /\ Raise(j, "probe")
  /\ UNCHANGED <<registryVars, progressVars, inflight, ttsTempDir,
                 fsVars>>
  /\ UNCHANGED unitVars

\* saveArtifacts finished (a failed write is only logged); the scratch
\* directory is removed and generatePodcast returns its result
SaveDone(j, ok) ==
  /\ pc[j] = "save"
  /\ artifactsFile' = IF ok THEN artifactsFile \cup {j} ELSE artifactsFile
  /\ cleanupPodcastTempDir(j)
  /\ pc' = [pc EXCEPT ![j] = "returned"]
  /\ UNCHANGED <<registryVars, progressVars, inflight, local,
                 ttsTempDir, finalMp3>>
  /\ UNCHANGED unitVars

\* the catch block of generatePodcast: cleanup, cleanupPodcastTempDir,
\* throw new AgentError(...)
Catch(j) ==
  /\ pc[j] = "catch"
  /\ cleanup(j)
  /\ cleanupPodcastTempDir(j)
  /\ pc' = [pc EXCEPT ![j] = "thrown"]
  /\ UNCHANGED <<registryVars, progressVars, inflight, local,
                 ttsTempDir>>
  /\ UNCHANGED unitVars

-----------------------------------------------------------------------------
\* A step of the job's pipeline: a call that generatePodcast or
\* processGeneration awaits returns a result or an error
PipelineStep(j) ==
  \/ \E ok \in BOOLEAN : Setup(j, ok)
  \/ \E source \in BOOLEAN : PlannerDone(j, source)
  \/ FetchDone(j)
  \/ FetchFails(j)
  \/ ResearchDone(j)
  \/ \E n \in 0..MaxSections : OutlineDone(j, n)
  \/ \E i \in 1..MaxSections : ScriptCallDone(j, i)
  \/ \E i \in 1..MaxSections : ScriptCallFails(j, i)
  \/ \E n \in 1..MaxUtterances : ToneDone(j, n)
  \/ AgentFails(j)
  \/ \E c \in 1..MaxChapters : EditorDone(j, c)
  \/ SpeechDone(j)
  \/ SpeechFails(j)
  \/ WriteDone(j)
  \/ WriteFails(j)
  \/ ChapterConcatDone(j)
  \/ ChapterConcatFails(j)
  \/ ConcatDone(j)
  \/ \E partial \in BOOLEAN : ConcatFails(j, partial)
  \/ \E d \in 1..MaxDuration : ProbeDone(j, d)
  \/ ProbeFails(j)
  \/ \E ok \in BOOLEAN : SaveDone(j, ok)
  \/ Catch(j)
  \/ Complete(j)
  \/ Fail(j)

JobStep(j) ==
  \/ Submit(j)
  \/ cancelGeneration(j)
  \/ PipelineStep(j)

Next == \E j \in Jobs : JobStep(j)

Spec == Init /\ [][Next]_vars

\* Every call a job awaits eventually returns: a job whose pipeline can take
\* a step takes one.  Requests (submit, cancel) may or may not arrive.
LiveSpec == Spec /\ \A j \in Jobs : WF_vars(PipelineStep(j))

-----------------------------------------------------------------------------
(* BaseAgent.chatComplete: one call, with the requests it sends *)

\* const maxRetries of AzureOpenAIService.getChatCompletion
maxRetries == 3

\* BaseAgent.options.useFoundryAgent; no agent and no caller overrides it
useFoundryAgent == TRUE

\* What the backend can answer to one request: a response with content, a
\* response without content ('No content in response'), an error with an
\* HTTP status, a timeout.
Outcomes == {"ok", "empty", "400", "401", "403", "500", "timeout"}

\* error.status === 400 || error.status === 401 || error.status === 403
NonRetryable == {"400", "401", "403"}

\* getChatCompletion is entered at the given call site and sends its first
\* request
SendFirst(c, site) ==
  [c EXCEPT !.pc = "request", !.site = site, !.attempt = 1,
            !.requests = c.requests + 1]

\* Variant of GetChatCompletionThrows: a failed run is not followed by the
\* generic chat backend, the error is raised
GetChatCompletionThrows_NoFallback(c) ==
  IF c.site = "run"
    THEN [c EXCEPT !.pc = "raised", !.runFailed = TRUE]
    ELSE [c EXCEPT !.pc = "raised", !.openAIFailed = c.openAIFailed + 1]

\* getChatCompletion threw its AzureError at the call site c.site:
\*   "run"     processWithFallback rethrows, createAndProcessRun returns a run
\*             with status 'failed', chatCompleteWithFoundry calls
\*             chatCompleteWithOpenAI inside its try block
\*   "try"     chatCompleteWithOpenAI, called inside the try block of
\*             chatCompleteWithFoundry, threw: the catch block calls
\*             chatCompleteWithOpenAI again
\*   "catch"   that call threw: chatComplete throws its AgentError
\*   "direct"  chatCompleteWithOpenAI called by chatComplete threw: AgentError
GetChatCompletionThrows(c) ==
  CASE c.site = "run" -> SendFirst([c EXCEPT !.runFailed = TRUE], "try")
    [] c.site = "try" ->
         SendFirst([c EXCEPT !.openAIFailed = c.openAIFailed + 1], "catch")
    [] OTHER -> [c EXCEPT !.pc = "raised",
                          !.openAIFailed = c.openAIFailed + 1]

\* chatComplete(userMessage) is called on an agent whose construction found
\* the given configuration; control runs to the first request.
\* config.agents.useFoundryAgents is read by no code: the test is on
\* this.options.useFoundryAgent
ChatComplete(agentId, available, useFoundryAgents) ==
  /\ chat.pc = "idle"
  /\ LET c == [chat EXCEPT !.agentId = agentId, !.available = available,
                           !.useFoundryAgents = useFoundryAgents]
     IN chat' = IF useFoundryAgent /\ agentId
                  THEN IF ~available THEN SendFirst(c, "try")
                                     ELSE SendFirst(c, "run")
                  ELSE SendFirst(c, "direct")
  /\ UNCHANGED <<jobVars, gen, loop, res, toneRun, tts, failure, submit>>

\* the backend answered the pending request
Respond(outcome) ==
  /\ chat.pc = "request"
  /\ LET c == [chat EXCEPT !.first = IF chat.requests = 1 THEN outcome ELSE @]
     IN chat' =
          IF outcome = "ok"
            THEN [c EXCEPT !.pc = "returned",
                           !.result = IF c.site = "run" THEN "foundry"
                                                        ELSE "openai"]
          ELSE IF outcome \in NonRetryable THEN GetChatCompletionThrows(c)
          ELSE IF c.attempt < maxRetries THEN [c EXCEPT !.pc = "backoff"]
          ELSE GetChatCompletionThrows(c)
  /\ UNCHANGED <<jobVars, gen, loop, res, toneRun, tts, failure, submit>>

\* the backoff timer fired: attempt++ and the next request is sent
BackoffDone ==
  /\ chat.pc = "backoff"
  /\ chat' = [chat EXCEPT !.pc = "request", !.attempt = chat.attempt + 1,
                          !.requests = chat.requests + 1]
  /\ UNCHANGED <<jobVars, gen, loop, res, toneRun, tts, failure, submit>>

NextChat ==
  \/ \E agentId, available, useFoundryAgents \in BOOLEAN :
       ChatComplete(agentId, available, useFoundryAgents)
  \/ \E outcome \in Outcomes : Respond(outcome)
  \/ BackoffDone

SpecChat == Init /\ [][NextChat]_vars

-----------------------------------------------------------------------------
(* PodcastOrchestrator.generateScriptsInParallel: one call, with the order *)
(* in which its ScriptAgent calls resolve                                  *)

\* Bounds of the explored requests and outlines
MaxBriefChapters == 2
MaxDurationMin == 2
MaxOutlineChapters == 2

\* config.performance.wordsPerMinute (the default)
wordsPerMinute == 150

\* Math.round(a / b) for a >= 0, b > 0
Round(a, b) == (2 * a + b) \div (2 * b)

\* OutlineAgent.parseOutlineSections: the opening hook when the outline has
\* one, the chapters found in their order, the closing segment when the
\* outline has one
parseOutlineSections(opening, found, closing) ==
  (IF opening THEN <<[type |-> "opening", number |-> 0]>> ELSE <<>>)
    \o [k \in 1..found |-> [type |-> "chapter", number |-> k]]
    \o (IF closing THEN <<[type |-> "closing", number |-> 0]>> ELSE <<>>)

\* planningInput.targetWords
planTargetWords(durationMin) == Round(durationMin * wordsPerMinute, 1)

\* the scriptInput built by batch.map for the section at position index
\* (from 0) of its batch: section.number || index + 1
scriptInput(g, batch, index) ==
  [section |-> batch[index + 1],
   chapterNumber |-> IF g.sections[batch[index + 1]].number # 0
                       THEN g.sections[batch[index + 1]].number
                       ELSE index + 1,
   targetWords |-> Round(planTargetWords(g.durationMin), Len(g.sections))]

\* const batches
genBatches(g) == createBatches(SectionSeq(Len(g.sections)), maxConcurrentAgents)

\* batch.map(...) calls script.execute for every section of batch b
IssueBatch(g, b) ==
  LET batch == genBatches(g)[b]
  IN [g EXCEPT !.batchNo = b,
               !.pending = 1..Len(batch),
               !.settled = [k \in 1..Len(batch) |-> "none"],
               !.arrival = <<>>,
               !.calls = g.calls \o
                           [k \in 1..Len(batch) |-> scriptInput(g, batch, k - 1)]]

\* Variant of PromiseAll: the values in the order the promises resolved
PromiseAll_ByArrival(settled, arrival) ==
  [k \in 1..Len(arrival) |-> settled[arrival[k]]]

\* await Promise.all(batchPromises): the values by position in the array
PromiseAll(settled, arrival) == settled

\* generateScriptsInParallel(outline, planningInput) is called with the
\* outline of a request; the calls of the first batch are issued
generateScriptsInParallel(chapters, durationMin, opening, found, closing) ==
  /\ gen.pc = "idle"
  /\ LET g == [gen EXCEPT !.chapters = chapters, !.durationMin = durationMin,
                          !.sections =
                             parseOutlineSections(opening, found, closing)]
     IN gen' = IF Len(g.sections) = 0
                 THEN [g EXCEPT !.pc = "thrown"]
                 ELSE [IssueBatch(g, 1) EXCEPT !.pc = "batch"]
  /\ UNCHANGED <<jobVars, chat, loop, res, toneRun, tts, failure, submit>>

\* the script.execute call at position k of the batch resolved with the
\* script of its section.  When it was the last one pending, Promise.all
\* resolves, scripts.push(...batchResults) runs, and the next batch is
\* issued or the scripts are returned.
ScriptResolved(k) ==
  /\ gen.pc = "batch"
  /\ k \in gen.pending
  /\ LET batch == genBatches(gen)[gen.batchNo]
         g == [gen EXCEPT !.pending = @ \ {k},
                          !.settled[k] = [script |-> batch[k]],
                          !.arrival = Append(@, k)]
         joined == [g EXCEPT !.scripts =
                                @ \o PromiseAll(g.settled, g.arrival)]
     IN gen' = IF g.pending # {} THEN g
               ELSE IF g.batchNo < Len(genBatches(g))
                 THEN IssueBatch(joined, g.batchNo + 1)
               ELSE [joined EXCEPT !.pc = "returned"]
  /\ UNCHANGED <<jobVars, chat, loop, res, toneRun, tts, failure, submit>>

\* a script.execute call rejected: Promise.all rejects and
\* generateScriptsInParallel throws
ScriptRejected(k) ==
  /\ gen.pc = "batch"
  /\ k \in gen.pending
  /\ gen' = [gen EXCEPT !.pc = "thrown", !.pending = @ \ {k}]
  /\ UNCHANGED <<jobVars, chat, loop, res, toneRun, tts, failure, submit>>

NextGen ==
  \/ \E chapters \in 1..MaxBriefChapters, durationMin \in 1..MaxDurationMin,
        opening \in BOOLEAN, found \in 0..MaxOutlineChapters,
        closing \in BOOLEAN :
       generateScriptsInParallel(chapters, durationMin, opening, found, closing)
  \/ \E k \in 1..maxConcurrentAgents : ScriptResolved(k)
  \/ \E k \in 1..maxConcurrentAgents : ScriptRejected(k)

SpecGen == Init /\ [][NextGen]_vars

-----------------------------------------------------------------------------
(* The word-count loops: ScriptAgent.generateScriptWithWordCount and *)
(* EditorAgent.editForWordCount, one call                            *)

\* const maxAttempts of both loops
maxAttempts == 3

\* const tolerance of generateScriptWithWordCount, in percent
scriptTolerance == 2

\* config.performance.tolerancePercent, the tolerance the orchestrator hands
\* to the editor
tolerancePercent == 5

\* The explored word targets, and by how many words a response may miss
TargetWords == {50, 150}
Deviations == {-8, -3, -1, 0, 1, 3, 8, 25}

\* planningInput.targetWords, the target the editor is given:
\* Math.round(durationMin * wordsPerMinute) for a duration of a whole minute
EditorTargets == {Round(d * wordsPerMinute, 1) : d \in {1}}

\* The spoken words of a response that is far too short
ShortWords == 10

\* The spoken-word counts a response to a request for the target may have
ResponseWords(targetWords) ==
  {targetWords + d : d \in Deviations} \cup {ShortWords}

Abs(x) == IF x < 0 THEN -x ELSE x

\* calculateWordAccuracy, in hundredths of a percent:
\* Math.round(((actualWords - targetWords) / targetWords) * 10000)
calculateWordAccuracy(actualWords, targetWords) ==
  Round((actualWords - targetWords) * 10000, targetWords)

\* Math.abs(accuracy) <= tolerance
WithinTolerance(wordCount, targetWords, tolerance) ==
  Abs(calculateWordAccuracy(wordCount, targetWords)) <= tolerance * 100

\* generateScriptWithWordCount(prompt, targetWords): the first chatComplete
generateScriptWithWordCount(targetWords) ==
  /\ loop.pc = "idle"
  /\ loop' = [loop EXCEPT !.pc = "call", !.agent = "script",
                          !.targetWords = targetWords,
                          !.tolerance = scriptTolerance,
                          !.attempt = 1, !.calls = 1]
  /\ UNCHANGED <<jobVars, chat, gen, res, toneRun, tts, failure, submit>>

\* editForWordCount(prompt, targetWords, tolerance): the first chatComplete
editForWordCount(targetWords, tolerance) ==
  /\ loop.pc = "idle"
  /\ loop' = [loop EXCEPT !.pc = "call", !.agent = "editor",
                          !.targetWords = targetWords,
                          !.tolerance = tolerance,
                          !.attempt = 1, !.calls = 1]
  /\ UNCHANGED <<jobVars, chat, gen, res, toneRun, tts, failure, submit>>

\* after the for loop: const finalResponse = await this.chatComplete(prompt)
LoopExit(l) ==
  [l EXCEPT !.pc = "finalCall", !.calls = l.calls + 1]

\* chatComplete of the for loop resolved with a response of the given number
\* of spoken words
AttemptResponse(wordCount) ==
  /\ loop.pc = "call"
  /\ LET l == [loop EXCEPT !.wordCounts = Append(@, wordCount)]
     IN loop' =
          IF WithinTolerance(wordCount, l.targetWords, l.tolerance)
            THEN [l EXCEPT !.pc = "returned", !.returned = l.calls]
          ELSE IF l.attempt < maxAttempts
            THEN [l EXCEPT !.attempt = l.attempt + 1, !.calls = l.calls + 1]
          ELSE LoopExit(l)
  /\ UNCHANGED <<jobVars, chat, gen, res, toneRun, tts, failure, submit>>

\* the chatComplete after the loop resolved: return finalResponse
FinalResponse(wordCount) ==
  /\ loop.pc = "finalCall"
  /\ loop' = [loop EXCEPT !.wordCounts = Append(@, wordCount),
                          !.pc = "returned", !.returned = loop.calls]
  /\ UNCHANGED <<jobVars, chat, gen, res, toneRun, tts, failure, submit>>

\* a chatComplete of the loop threw its AgentError
LoopCallFails ==
  /\ loop.pc \in {"call", "finalCall"}
  /\ loop' = [loop EXCEPT !.pc = "thrown"]
  /\ UNCHANGED <<jobVars, chat, gen, res, toneRun, tts, failure, submit>>

\* What validateFinalScript reads of finalScript.content: whether '**[' ,
\* 'TODO' and '[INSERT' occur in it and whether its length exceeds 100.  A
\* text of n spoken words has at least 2n - 1 characters.
FinalContents(wordCount) ==
  {c \in [label : BOOLEAN, long : BOOLEAN, todo : BOOLEAN, insert : BOOLEAN] :
     2 * wordCount - 1 > 100 => c.long}

\* const lenientTolerance = Math.max(tolerance, 15)
lenientTolerance(tolerance) == IF tolerance > 15 THEN tolerance ELSE 15

\* validateFinalScript(finalScript, input): every finding is a logger.warn
\* and the function returns true; the value is the set of warnings logged
\* (the checks of tone labels and sentence length, warnings too, are left out)
validateFinalScript(wordCount, content, targetWords, tolerance) ==
  (IF WithinTolerance(wordCount, targetWords, lenientTolerance(tolerance))
     THEN {} ELSE {"Word count slightly outside target range"})
  \cup (IF wordCount < 25 THEN {"Final script is quite short"} ELSE {})
  \cup (IF content.label /\ content.long /\ ~content.todo /\ ~content.insert
          THEN {} ELSE {"Final script may not be fully production ready"})

\* calculateAccuracy(target, actual) of the orchestrator:
\* percentDifference = (|target - actual| / target) * 100 against
\* tolerancePercent, twice and three times tolerancePercent
calculateAccuracy(target, actual) ==
  LET difference == Abs(target - actual)
  IN IF difference * 100 <= tolerancePercent * target THEN "excellent"
     ELSE IF difference * 100 <= tolerancePercent * 2 * target THEN "good"
     ELSE IF difference * 100 <= tolerancePercent * 3 * target THEN "fair"
     ELSE "poor"

\* The balance OutlineAgent.calculateTiming assigns to
\* deviation = |totalWords - targetWords| / targetWords * 100
timingBalance(totalWords, targetWords) ==
  LET deviation == Abs(totalWords - targetWords) * 100
  IN IF deviation <= 5 * targetWords THEN "excellent"
     ELSE IF deviation <= 10 * targetWords THEN "good"
     ELSE IF deviation <= 20 * targetWords THEN "fair"
     ELSE "poor"

\* finalScript.wordCount: countSpokenWords of the response editForWordCount
\* returned
finalWordCount(l) == l.wordCounts[l.returned]

\* EditorAgent.execute after editForWordCount returned: extractMarkdown,
\* validateFinalScript, return result
ExecuteReturns ==
  /\ loop.pc = "returned"
  /\ loop.agent = "editor"
  /\ \E content \in FinalContents(finalWordCount(loop)) :
       loop' = [loop EXCEPT
                  !.pc = "executed",
                  !.content = {content},
                  !.warnings = validateFinalScript(finalWordCount(loop),
                                 content, loop.targetWords, loop.tolerance)]
  /\ UNCHANGED <<jobVars, chat, gen, res, toneRun, tts, failure, submit>>

\* generatePodcast after steps 7 and 8, which do not read the script's word
\* count: const metadata = {..., accuracy: calculateAccuracy(...)}
ComputeMetadata ==
  /\ loop.pc = "executed"
  /\ loop' = [loop EXCEPT
                !.pc = "completed",
                !.accuracy = calculateAccuracy(loop.targetWords,
                                               finalWordCount(loop))]
  /\ UNCHANGED <<jobVars, chat, gen, res, toneRun, tts, failure, submit>>

NextLoop ==
  \/ \E t \in TargetWords : generateScriptWithWordCount(t)
  \/ \E t \in EditorTargets : editForWordCount(t, tolerancePercent)
  \/ \E w \in ResponseWords(loop.targetWords) : AttemptResponse(w)
  \/ \E w \in ResponseWords(loop.targetWords) : FinalResponse(w)
  \/ LoopCallFails
  \/ ExecuteReturns
  \/ ComputeMetadata

SpecLoop == Init /\ [][NextLoop]_vars

-----------------------------------------------------------------------------
(* Step 2 of generatePodcast with ContentFetcher.fetchContent, one job *)

\* validateContent: 'Content too short (minimum 50 words required)'
minWords == 50

\* The explored texts a source can hold: their title, their number of words
\* (countWords) and whether they have at least the 100 characters
\* extractFromHtml asks for (a text of no words has none, a text of 200 has)
Documents ==
  {d \in [title : {"t1", "t2"}, words : {0, 10, 49, 50, 51, 200}, long : BOOLEAN] :
     /\ d.words = 0 => ~d.long
     /\ d.words = 200 => d.long}

ContentTypes == {"text/html", "text/plain", "text/markdown", "other"}

\* what fetchFromUrl and fetchFromFile return for a text
fetched(doc) ==
  [title |-> doc.title, content |-> doc, wordCount |-> doc.words]

\* the research object built from the fetched source
sourceResearch(sourceContent) ==
  [preamble |-> "# Research Based on Source Material",
   title |-> sourceContent.title,
   body |-> sourceContent.content,
   wordCount |-> sourceContent.wordCount]

\* research = await this.agents.research.execute(researchInput) is called
callResearch(r) ==
  [r EXCEPT !.pc = "research", !.modelCalls = r.modelCalls + 1]

\* step 2 begins: if (source) fetchContent(source) is called, which awaits
\* fetch(url) or readFile(filePath); without a source research.execute is
\* called
Step2Begins(source) ==
  /\ res.pc = "idle"
  /\ res' = IF source # "none"
              THEN [res EXCEPT !.source = source,
                               !.pc = IF source = "url" THEN "fetch"
                                                        ELSE "readFile"]
              ELSE callResearch(res)
  /\ UNCHANGED <<jobVars, chat, gen, loop, toneRun, tts, failure, submit>>

\* Variant of FetchRejected: the error of fetchContent is thrown on
FetchRejected_Thrown(r, message) ==
  [r EXCEPT !.fetchFailed = TRUE, !.fetchError = message,
            !.pc = "catch", !.thrown = "fetch"]

\* fetchContent threw: the catch block of step 2 sets sourceContent = null
\* and if (!sourceContent) calls research.execute
FetchRejected(r, message) ==
  callResearch([r EXCEPT !.fetchFailed = TRUE, !.fetchError = message,
                         !.sourceContent = {}])

\* Variant of FetchResolved: the research agent is called as well
FetchResolved_AlsoResearches(r, doc) ==
  callResearch([r EXCEPT !.sourceContent = {fetched(doc)}])

\* fetchContent returned: the research is built from the source and step 3
\* begins
FetchResolved(r, doc) ==
  [r EXCEPT !.sourceContent = {fetched(doc)},
            !.research = {sourceResearch(fetched(doc))},
            !.pc = "outline"]

\* fetch(url) resolved with a response; response.text() is awaited when the
\* response is ok
FetchResponse(ok, contentType) ==
  /\ res.pc = "fetch"
  /\ res' = IF ok THEN [res EXCEPT !.pc = "text", !.contentType = contentType]
                  ELSE FetchRejected(res, "HTTP status")
  /\ UNCHANGED <<jobVars, chat, gen, loop, toneRun, tts, failure, submit>>

\* response.text() resolved: extractFromHtml for HTML (which throws on less
\* than 100 characters), the text as it is for plain text and markdown, an
\* error for every other content type
TextRead(doc) ==
  /\ res.pc = "text"
  /\ res' = CASE res.contentType = "text/html" ->
                   IF doc.long THEN FetchResolved(res, doc)
                               ELSE FetchRejected(res, "Insufficient content")
              [] res.contentType \in {"text/plain", "text/markdown"} ->
                   FetchResolved(res, doc)
              [] OTHER -> FetchRejected(res, "Unsupported content type")
  /\ UNCHANGED <<jobVars, chat, gen, loop, toneRun, tts, failure, submit>>

\* readFile resolved with the text of the file
FileRead(doc) ==
  /\ res.pc = "readFile"
  /\ res' = FetchResolved(res, doc)
  /\ UNCHANGED <<jobVars, chat, gen, loop, toneRun, tts, failure, submit>>

\* fetch, response.text() or readFile rejected
FetchIOFails ==
  /\ res.pc \in {"fetch", "text", "readFile"}
  /\ res' = FetchRejected(res, "io")
  /\ UNCHANGED <<jobVars, chat, gen, loop, toneRun, tts, failure, submit>>

\* research.execute returned the notes the model wrote; step 3 begins
ResearchResolved(notes) ==
  /\ res.pc = "research"
  /\ res' = [res EXCEPT !.research = {[model |-> notes]}, !.pc = "outline"]
  /\ UNCHANGED <<jobVars, chat, gen, loop, toneRun, tts, failure, submit>>

\* research.execute threw: the catch block of generatePodcast is reached
ResearchRejected ==
  /\ res.pc = "research"
  /\ res' = [res EXCEPT !.pc = "catch", !.thrown = "research"]
  /\ UNCHANGED <<jobVars, chat, gen, loop, toneRun, tts, failure, submit>>

NextRes ==
  \/ \E source \in {"none", "url", "file"} : Step2Begins(source)
  \/ \E ok \in BOOLEAN, contentType \in ContentTypes :
       FetchResponse(ok, contentType)
  \/ \E doc \in Documents : TextRead(doc)
  \/ \E doc \in Documents : FileRead(doc)
  \/ FetchIOFails
  \/ \E notes \in {"notes1", "notes2"} : ResearchResolved(notes)
  \/ ResearchRejected

SpecRes == Init /\ [][NextRes]_vars

-----------------------------------------------------------------------------
(* ToneAgent.parseUtterances: the text of a response is a sequence of tokens.
   Two neighbouring tokens are separated by one blank, except that a "nl"
   token is a line break standing in the blank's place, so two "nl" tokens in
   a row are an empty line.
     [k |-> "host", v |-> "1"]         **Host 1:**
     [k |-> "tag",  v |-> "calm"]      [calm]
     [k |-> "bold", v |-> "calm"]      **[calm]**
     [k |-> "sentence", v |-> "?"]     words ending in that punctuation mark,
                                       none of them a keyword of
                                       inferToneFromContent, no abbreviation,
                                       shorter than the comma-split length
     [k |-> "nl", v |-> ""]            \n
   No token is a "## " heading, so scriptContent is the whole content.
   An utterance carries, beside the fields of the code, the position `block'
   of the label, tag, line or paragraph it was cut from. *)

MaxTokens == 4

TagTexts == {"calm", "Excited", "whimsical"}

Tokens ==
  [k : {"host"}, v : {"1", "2"}]
    \cup [k : {"tag"}, v : TagTexts]
    \cup [k : {"bold"}, v : {"calm", "whimsical"}]
    \cup [k : {"sentence"}, v : {".", "?", "!"}]
    \cup [k : {"nl"}, v : {""}]

\* Every text of at most MaxTokens tokens.
TokenResponses == UNION {[1..n -> Tokens] : n \in 0..MaxTokens}

MaxLines == 3

\* One line of a tone script: a host label, a tag or none, and no, one or two
\* sentences.
HostLines ==
  LET label == [k : {"host"}, v : {"1", "2"}]
      tag == {<<>>} \cup {<<[k |-> "tag", v |-> t]>> : t \in {"calm", "Excited"}}
      stop == [k |-> "sentence", v |-> "."]
  IN {<<h>> : h \in label}
       \cup {<<h>> \o t \o said : h \in label, t \in tag,
                                 said \in {<<stop>>, <<stop, stop>>}}

\* lines.join('\n')
RECURSIVE joinLines(_)
joinLines(lines) ==
  IF Len(lines) = 0 THEN <<>>
  ELSE IF Len(lines) = 1 THEN lines[1]
  ELSE lines[1] \o <<[k |-> "nl", v |-> ""]>> \o joinLines(Tail(lines))

\* Every tone script of at most MaxLines host lines.
ScriptResponses ==
  {joinLines(lines) : lines \in UNION {[1..n -> HostLines] : n \in 1..MaxLines}}

Responses == TokenResponses \cup ScriptResponses

\* The tones named in the agent's system prompt, with the ones only the
\* orchestrator's availableTones lists.
closedToneSet ==
  {"upbeat", "calm", "excited", "reflective", "suspenseful", "skeptical",
   "humorous", "serious", "curious", "confident"}

availableTones ==
  {"upbeat", "calm", "excited", "reflective", "suspenseful", "skeptical",
   "humorous", "angry", "sad", "hopeful"}

\* String.prototype.toLowerCase on the tag texts of TagTexts.
toLowerCase(s) == IF s = "Excited" THEN "excited" ELSE s

\* First position from i on that does not hold a line break.
RECURSIVE SkipNl(_, _)
SkipNl(toks, i) ==
  IF i <= Len(toks) /\ toks[i].k = "nl" THEN SkipNl(toks, i + 1) ELSE i

\* First position from i on that holds a token of kind k, Len(toks) + 1 if none.
RECURSIVE NextOf(_, _, _)
NextOf(toks, i, k) ==
  IF i > Len(toks) \/ toks[i].k = k THEN i ELSE NextOf(toks, i + 1, k)

\* Last position that does not hold a line break, 0 if none.
RECURSIVE LastText(_, _)
LastText(toks, i) ==
  IF i >= 1 /\ toks[i].k = "nl" THEN LastText(toks, i - 1) ELSE i

\* String.prototype.trim: leading and trailing white space goes.
trim(toks) == SubSeq(toks, SkipNl(toks, 1), LastText(toks, Len(toks)))

\* text.replace(/\n+/g, ' ').replace(/\s+/g, ' ').trim()
cleanText(text) == SelectSeq(text, LAMBDA t : t.k # "nl")

\* Cut after each sentence end followed by white space; what is left after the
\* last sentence end is a sentence too.
RECURSIVE splitIntoSentences(_)
splitIntoSentences(text) ==
  IF Len(text) = 0 THEN <<>>
  ELSE LET e == Min(NextOf(text, 1, "sentence"), Len(text))
       IN <<SubSeq(text, 1, e)>>
            \o splitIntoSentences(SubSeq(text, e + 1, Len(text)))

inferToneFromContent(text) ==
  IF \E i \in 1..Len(text) : text[i].k = "sentence" /\ text[i].v = "!"
    THEN "excited"
  ELSE IF \E i \in 1..Len(text) : text[i].k = "sentence" /\ text[i].v = "?"
    THEN "curious"
  ELSE "calm"

\* `host${hostNumber}`
hostSpeaker(hostNumber) == IF hostNumber = "1" THEN "host1" ELSE "host2"

\* The speaker the old tone-only format gives, read after utteranceIndex++.
legacySpeaker(utteranceIndex) ==
  IF utteranceIndex % 2 = 1 THEN "host1" ELSE "host2"

\* The speaker the paragraph fallback gives, read after utteranceIndex++.
paragraphSpeaker(utteranceIndex) ==
  IF utteranceIndex % 2 = 0 THEN "host1" ELSE "host2"

\* sentences.forEach(sentence => utterances.push({index: utteranceIndex++, ...}))
\* where utteranceIndex is the number of utterances pushed so far and speaker
\* maps the value of utteranceIndex after the increment to the speaker.
pushSentences(utterances, sentences, speaker, tone, block) ==
  utterances \o
    [s \in 1..Len(sentences) |->
      [index |-> Len(utterances) + s - 1,
       speaker |-> speaker[Len(utterances) + s],
       tone |-> tone,
       text |-> sentences[s],
       block |-> block]]

\* while ((match = hostToneRegex.exec(scriptContent)) !== null): a match starts
\* at a host label whose next text is a tag followed by white space, and takes
\* the text up to the next host label or the end.
RECURSIVE hostToneFormat(_, _, _)
hostToneFormat(toks, i, utterances) ==
  IF i > Len(toks) THEN utterances
  ELSE LET j == SkipNl(toks, i + 1)
           matches == toks[i].k = "host" /\ j < Len(toks) /\ toks[j].k = "tag"
           e == NextOf(toks, j + 1, "host")
           clean == cleanText(SubSeq(toks, j + 1, e - 1))
       IN IF ~matches THEN hostToneFormat(toks, i + 1, utterances)
          ELSE hostToneFormat(toks, e,
                 pushSentences(utterances, splitIntoSentences(clean),
                               [n \in Nat |-> hostSpeaker(toks[i].v)],
                               toLowerCase(toks[j].v), i))

\* while ((match = utteranceRegex.exec(scriptContent)) !== null): a match starts
\* at a bold tag followed by white space and takes the text up to the next
\* bold tag or the end.
RECURSIVE legacyFormat(_, _, _)
legacyFormat(toks, i, utterances) ==
  IF i > Len(toks) THEN utterances
  ELSE LET matches == toks[i].k = "bold" /\ i < Len(toks)
           e == NextOf(toks, i + 1, "bold")
           clean == cleanText(SubSeq(toks, i + 1, e - 1))
       IN IF ~matches THEN legacyFormat(toks, i + 1, utterances)
          ELSE legacyFormat(toks, e,
                 pushSentences(utterances, splitIntoSentences(clean),
                               [n \in Nat |-> legacySpeaker(n)],
                               toLowerCase(toks[i].v), i))

\* scriptContent.split('\n')
RECURSIVE splitLines(_)
splitLines(toks) ==
  LET e == NextOf(toks, 1, "nl")
  IN IF e > Len(toks) THEN <<toks>>
     ELSE <<SubSeq(toks, 1, e - 1)>>
            \o splitLines(SubSeq(toks, e + 1, Len(toks)))

\* line.match(/\*\*Host ([12]):\*\*\s+(.*)/) and what the code does with a
\* match: the first host label of the line, if text follows it, gives the
\* speaker of every sentence of the rest of the line.
hostLine(utterances, line, block) ==
  LET p == NextOf(line, 1, "host")
      text == SubSeq(line, p + 1, Len(line))
  IN IF p >= Len(line) THEN utterances
     ELSE pushSentences(utterances, splitIntoSentences(text),
                        [n \in Nat |-> hostSpeaker(line[p].v)],
                        inferToneFromContent(text), block)

hostMatches(line) == NextOf(line, 1, "host") < Len(line)

\* for (const line of lines)
RECURSIVE lineByLine(_, _, _)
lineByLine(lines, n, utterances) ==
  IF n > Len(lines) THEN utterances
  ELSE lineByLine(lines, n + 1, hostLine(utterances, lines[n], n))

\* content.split(/\n\s*\n/).filter(p => p.trim().length > 0)
\*        .map(p => p.replace(/\n/g, ' ').trim())
RECURSIVE splitParagraphs(_, _, _, _)
splitParagraphs(toks, i, current, paragraphs) ==
  LET closed == IF Len(current) = 0 THEN paragraphs
                ELSE Append(paragraphs, current)
  IN IF i > Len(toks) THEN closed
     ELSE IF toks[i].k # "nl"
       THEN splitParagraphs(toks, i + 1, Append(current, toks[i]), paragraphs)
     ELSE IF SkipNl(toks, i) - i >= 2
       THEN splitParagraphs(toks, SkipNl(toks, i), <<>>, closed)
     ELSE splitParagraphs(toks, i + 1, current, paragraphs)

\* paragraphs.forEach: a paragraph with a host label followed by text is cut
\* into that host's sentences, any other paragraph is one utterance.  No
\* paragraph of these tokens starts with '#' or holds a ':' outside a host
\* label, so none is skipped.
RECURSIVE paragraphFallback(_, _, _)
paragraphFallback(paragraphs, n, utterances) ==
  IF n > Len(paragraphs) THEN utterances
  ELSE paragraphFallback(paragraphs, n + 1,
         IF hostMatches(paragraphs[n])
           THEN hostLine(utterances, paragraphs[n], n)
           ELSE Append(utterances,
                  [index |-> Len(utterances),
                   speaker |-> paragraphSpeaker(Len(utterances) + 1),
                   tone |-> inferToneFromContent(paragraphs[n]),
                   text |-> paragraphs[n],
                   block |-> n]))

parseAlternativeFormat(content) ==
  LET lines == SelectSeq(splitLines(content), LAMBDA l : Len(l) > 0)
      byLine == lineByLine(lines, 1, <<>>)
  IN IF Len(byLine) = 0
       THEN paragraphFallback(splitParagraphs(content, 1, <<>>, <<>>), 1, <<>>)
       ELSE byLine

\* The strategy whose utterances parseUtterances returns.
strategyOf(content) ==
  IF Len(hostToneFormat(content, 1, <<>>)) > 0 THEN "hostTone"
  ELSE IF Len(legacyFormat(content, 1, <<>>)) > 0 THEN "legacy"
  ELSE IF Len(lineByLine(splitLines(content), 1, <<>>)) > 0 THEN "lineByLine"
  ELSE "alternative"

parseUtterances(content) ==
  LET hostTone == hostToneFormat(content, 1, <<>>)
      legacy == IF Len(hostTone) = 0 THEN legacyFormat(content, 1, <<>>)
                ELSE hostTone
      byLine == IF Len(legacy) = 0
                  THEN lineByLine(splitLines(content), 1, <<>>)
                ELSE legacy
  IN IF Len(byLine) = 0 THEN parseAlternativeFormat(content) ELSE byLine

\* const response = await this.chatComplete(tonePrompt);
\* const enhancedScript = this.extractMarkdown(response)
ToneResponse ==
  /\ toneRun.pc = "idle"
  /\ \E response \in Responses :
       toneRun' = [toneRun EXCEPT !.pc = "extracted",
                                  !.content = trim(response)]
  /\ UNCHANGED <<jobVars, chat, gen, loop, res, tts, failure, submit>>

\* const utterances = this.parseUtterances(enhancedScript.content)
ParseUtterances ==
  /\ toneRun.pc = "extracted"
  /\ toneRun' = [toneRun EXCEPT !.pc = "parsed",
                                !.utterances = parseUtterances(toneRun.content)]
  /\ UNCHANGED <<jobVars, chat, gen, loop, res, tts, failure, submit>>

\* validateToneEnhancement throws when there is no utterance; execute returns
\* the result otherwise.
ValidateToneEnhancement ==
  /\ toneRun.pc = "parsed"
  /\ toneRun' = [toneRun EXCEPT
                   !.pc = IF Len(toneRun.utterances) = 0 THEN "thrown"
                          ELSE "returned"]
  /\ UNCHANGED <<jobVars, chat, gen, loop, res, tts, failure, submit>>

NextTone ==
  \/ ToneResponse
  \/ ParseUtterances
  \/ ValidateToneEnhancement

SpecTone == Init /\ [][NextTone]_vars

-----------------------------------------------------------------------------
(* TTSAgent.execute for one job, and the final concatenation of step 8 *)

MaxTtsUtterances == 4
MaxTtsChapters == 3

\* toneEnhancedScript.utterances: indices 0, 1, 2, ... and a speaker each
TtsUtterances ==
  UNION {{[k \in 1..n |-> [index |-> k - 1, speaker |-> sp[k]]] :
            sp \in [1..n -> {"host1", "host2"}]} : n \in 1..MaxTtsUtterances}

\* TTSAgent.getVoiceForSpeaker with the default voices of the configuration
getVoiceForSpeaker(speaker) ==
  IF speaker = "host2" THEN "echo" ELSE "alloy"

\* chapter-${chapterNumber}-utterance-${utteranceIndex}-${timestamp}.mp3
utterancePath(chapterNumber, utteranceIndex) ==
  [kind |-> "utterance", chapter |-> chapterNumber, index |-> utteranceIndex]

\* chapter-${chapterNumber}-combined-${timestamp}.mp3
chapterPath(chapterNumber) ==
  [kind |-> "chapter", chapter |-> chapterNumber, index |-> 0]

jinglePath == [kind |-> "jingle", chapter |-> 0, index |-> 0]

\* join(config.audioOutputDir, `${id}.mp3`)
finalAudioPath == [kind |-> "final", chapter |-> 0, index |-> 0]

\* const chapterGroups of execute
ttsGroups(t) == groupUtterancesByChapters(t.utterances, t.chapters)

\* the utterance the loop of generateUtteranceAudioFiles stands on
ttsUtterance(t) == ttsGroups(t)[t.chapter][t.pos]

\* generateUtteranceAudioFiles reaches an utterance: its voice is looked up
\* and generateSpeech is called.
callGenerateSpeech(t, chapter, pos) ==
  LET utterance == ttsGroups(t)[chapter][pos]
  IN [t EXCEPT !.pc = "speech", !.chapter = chapter, !.pos = pos,
               !.speechCalls = Append(t.speechCalls,
                 [index |-> utterance.index,
                  voice |-> getVoiceForSpeaker(utterance.speaker)])]

\* Variant of inputPaths: the files are taken last first
inputPaths_Reversed(utteranceFiles) ==
  [k \in 1..Len(utteranceFiles) |->
     utteranceFiles[Len(utteranceFiles) + 1 - k].path]

\* const inputPaths = utteranceFiles.map(file => file.path)
inputPaths(utteranceFiles) ==
  [k \in 1..Len(utteranceFiles) |-> utteranceFiles[k].path]

\* Variant of ttsThrows: an utterance whose synthesis failed is left out and
\* the loop goes on with what follows it
ttsThrows_Skipped(t, message) ==
  IF t.pc # "speech"
    THEN [t EXCEPT !.pc = "thrown", !.thrown = message, !.finalMp3 = FALSE]
  ELSE IF t.pos < Len(ttsGroups(t)[t.chapter])
    THEN callGenerateSpeech(t, t.chapter, t.pos + 1)
  ELSE [t EXCEPT !.pc = "chapterConcat",
                 !.concatCalls = Append(t.concatCalls,
                   [output |-> chapterPath(t.chapter),
                    inputs |-> inputPaths(t.utteranceFiles)])]

\* An error leaves execute (it is logged and thrown again) and generatePodcast
\* catches it, cleans up and throws its AgentError.
ttsThrows(t, message) ==
  [t EXCEPT !.pc = "thrown", !.thrown = message, !.finalMp3 = FALSE]

\* The chapter loop of execute enters chapter i + 1: generateChapterAudio
\* throws on an empty group, otherwise the first generateSpeech call of
\* generateUtteranceAudioFiles is issued.
enterChapter(t, chapter) ==
  IF Len(ttsGroups(t)[chapter]) = 0
    THEN ttsThrows(t, "No utterances provided for chapter")
    ELSE callGenerateSpeech([t EXCEPT !.utteranceFiles = <<>>], chapter, 1)

\* let audioFilesWithJingle of step 8
audioFilesWithJingle(audioFiles, jingleExists) ==
  IF jingleExists THEN <<jinglePath>> \o audioFiles ELSE audioFiles

\* The spoken words of one utterance
UtteranceWords == 10

\* What editor.execute can return for a tone script of the given utterances:
\* the dialogue unchanged, or cut down to its first lines; wordCount is
\* countSpokenWords of the content
EditorOutputs(utterances) ==
  {[lines |-> SubSeq(utterances, 1, k), wordCount |-> k * UtteranceWords] :
     k \in 1..Len(utterances)}

\* const ttsInput of step 7
ttsInput(finalScript, toneUtterances, chapters) ==
  [script |-> finalScript.lines, utterances |-> toneUtterances,
   chapters |-> chapters]

\* const processedUtterances = utterances || parseUtterancesFromScript(script)
\* of TTSAgent.execute: utterances is an array, which is never falsy
processedUtterances(input) == input.utterances

\* Steps 6 and 7 of generatePodcast: editor.execute returned finalScript for
\* the tone script of the given utterances, and tts.execute(ttsInput) is
\* called
TtsExecute(utterances, chapters) ==
  /\ tts.pc = "idle"
  /\ \E finalScript \in EditorOutputs(utterances) :
       LET input == ttsInput(finalScript, utterances, chapters)
       IN tts' = enterChapter([tts EXCEPT
                                 !.finalScript = finalScript,
                                 !.utterances = processedUtterances(input),
                                 !.chapters = input.chapters], 1)
  /\ UNCHANGED <<jobVars, chat, gen, loop, res, toneRun, failure, submit>>

\* generateSpeech resolved: the path is built and writeFile is issued
GenerateSpeechResolved ==
  /\ tts.pc = "speech"
  /\ tts' = [tts EXCEPT !.pc = "write"]
  /\ UNCHANGED <<jobVars, chat, gen, loop, res, toneRun, failure, submit>>

\* generateSpeech rejected
GenerateSpeechRejected ==
  /\ tts.pc = "speech"
  /\ tts' = ttsThrows(tts, "TTS generation failed for utterance")
  /\ UNCHANGED <<jobVars, chat, gen, loop, res, toneRun, failure, submit>>

\* writeFile resolved: the file joins utteranceFiles; the loop goes on with
\* the chapter's next utterance, or concatenateUtteranceAudio is called
WriteFileResolved ==
  /\ tts.pc = "write"
  /\ LET utterance == ttsUtterance(tts)
         file == [path |-> utterancePath(tts.chapter, utterance.index),
                  utteranceIndex |-> utterance.index,
                  speaker |-> utterance.speaker,
                  voice |-> getVoiceForSpeaker(utterance.speaker)]
         t == [tts EXCEPT !.utteranceFiles = Append(tts.utteranceFiles, file)]
     IN tts' = IF tts.pos < Len(ttsGroups(tts)[tts.chapter])
                 THEN callGenerateSpeech(t, tts.chapter, tts.pos + 1)
                 ELSE [t EXCEPT !.pc = "chapterConcat",
                                !.concatCalls = Append(t.concatCalls,
                                  [output |-> chapterPath(t.chapter),
                                   inputs |-> inputPaths(t.utteranceFiles)])]
  /\ UNCHANGED <<jobVars, chat, gen, loop, res, toneRun, failure, submit>>

\* writeFile rejected
WriteFileRejected ==
  /\ tts.pc = "write"
  /\ tts' = ttsThrows(tts, "TTS generation failed for utterance")
  /\ UNCHANGED <<jobVars, chat, gen, loop, res, toneRun, failure, submit>>

\* ffmpeg wrote the chapter file: the chapter loop goes on, or execute returns
\* and step 8 begins
ChapterConcatResolved ==
  /\ tts.pc = "chapterConcat"
  /\ LET t == [tts EXCEPT
                 !.audioFiles = Append(tts.audioFiles, chapterPath(tts.chapter)),
                 !.chapterFiles = Append(tts.chapterFiles,
                   [chapter |-> tts.chapter,
                    inputs |-> tts.concatCalls[Len(tts.concatCalls)].inputs])]
     IN tts' = IF tts.chapter < Len(ttsGroups(tts))
                 THEN enterChapter(t, tts.chapter + 1)
                 ELSE [t EXCEPT !.pc = "stitch"]
  /\ UNCHANGED <<jobVars, chat, gen, loop, res, toneRun, failure, submit>>

\* ffmpeg failed on a chapter
ChapterConcatRejected ==
  /\ tts.pc = "chapterConcat"
  /\ tts' = ttsThrows(tts, "Audio concatenation failed")
  /\ UNCHANGED <<jobVars, chat, gen, loop, res, toneRun, failure, submit>>

\* Step 8: existsSync(jinglePath) is read and the final concatenateAudio is
\* called
StitchBegins(jingleExists) ==
  /\ tts.pc = "stitch"
  /\ tts' = [tts EXCEPT !.pc = "finalConcat",
                        !.concatCalls = Append(tts.concatCalls,
                          [output |-> finalAudioPath,
                           inputs |-> audioFilesWithJingle(tts.audioFiles,
                                                           jingleExists)]),
                        !.jingle = IF jingleExists THEN "exists"
                                   ELSE "missing"]
  /\ UNCHANGED <<jobVars, chat, gen, loop, res, toneRun, failure, submit>>

\* ffmpeg wrote {outputDir}/{id}.mp3
FinalConcatResolved ==
  /\ tts.pc = "finalConcat"
  /\ tts' = [tts EXCEPT !.pc = "stitched", !.finalMp3 = TRUE]
  /\ UNCHANGED <<jobVars, chat, gen, loop, res, toneRun, failure, submit>>

\* ffmpeg failed on the final file; cleanup(id) unlinks what it left
FinalConcatRejected ==
  /\ tts.pc = "finalConcat"
  /\ tts' = ttsThrows(tts, "Audio concatenation failed")
  /\ UNCHANGED <<jobVars, chat, gen, loop, res, toneRun, failure, submit>>

NextTts ==
  \/ \E utterances \in TtsUtterances, chapters \in 1..MaxTtsChapters :
       TtsExecute(utterances, chapters)
  \/ GenerateSpeechResolved
  \/ GenerateSpeechRejected
  \/ WriteFileResolved
  \/ WriteFileRejected
  \/ ChapterConcatResolved
  \/ ChapterConcatRejected
  \/ \E jingleExists \in BOOLEAN : StitchBegins(jingleExists)
  \/ FinalConcatResolved
  \/ FinalConcatRejected

SpecTts == Init /\ [][NextTts]_vars

-----------------------------------------------------------------------------
(* A failing job: generatePodcast's catch, the .catch handler of the
   controller, and getStatus *)

MaxClock == 2
MaxCancels == 2

\* Where an error can leave the try block of generatePodcast, with the class
\* and the head of the message of the error each place throws.
Origins ==
  [step : {"planner", "research", "outline", "script", "tone", "editor"},
   name : {"AgentError"}, message : {"execution failed"}]
    \cup [step : {"tts"}, name : {"Error"},
          message : {"TTS generation failed for utterance",
                     "No utterances provided for chapter"}]
    \cup [step : {"concat"}, name : {"Error"},
          message : {"Audio concatenation failed", "Audio file not found"}]
    \cup [step : {"probe"}, name : {"Error"},
          message : {"Failed to get audio duration", "Audio file not found"}]

\* new AgentError(`Podcast generation failed: ${error.message}`,
\*                'Orchestrator', error)
orchestratorError(err) ==
  [name |-> "AgentError", status |-> 422, code |-> "AGENT_PROCESSING_ERROR",
   agentName |-> "Orchestrator",
   message |-> <<"Podcast generation failed", err.message>>]

\* The body getStatus sends for a generation that exists.
statusResponse(generation) ==
  IF generation.status = "failed"
    THEN [status |-> generation.status, error |-> generation.error,
          failedAt |-> generation.completedAt]
    ELSE [status |-> generation.status]

\* An await of the try block of generatePodcast rejects
PipelineThrows(origin) ==
  /\ failure.pc = "running"
  /\ failure' = [failure EXCEPT !.pc = "catch", !.origin = origin.step,
                                !.thrown = {[name |-> origin.name,
                                             message |-> origin.message]}]
  /\ UNCHANGED <<jobVars, chat, gen, loop, res, toneRun, tts, submit>>

\* The catch block of generatePodcast wraps the error; processGeneration logs
\* it and throws it again.
OrchestratorCatch ==
  /\ failure.pc = "catch"
  /\ \E err \in failure.thrown :
       failure' = [failure EXCEPT !.pc = "rejected",
                                  !.thrown = {orchestratorError(err)}]
  /\ UNCHANGED <<jobVars, chat, gen, loop, res, toneRun, tts, submit>>

\* The .catch handler of PodcastController.generatePodcast
ControllerCatch ==
  /\ failure.pc = "rejected"
  /\ \E err \in failure.thrown :
       failure' = [failure EXCEPT
                     !.pc = "failed", !.thrown = {},
                     !.generation = [status |-> "failed",
                                     error |-> {err.message},
                                     completedAt |-> {failure.now}]]
  /\ UNCHANGED <<jobVars, chat, gen, loop, res, toneRun, tts, submit>>

\* DELETE /generation/:id for a generation that exists: refused with 400 when
\* the status is completed or failed, otherwise the status becomes cancelled
\* and completedAt the present time.
FailureCancelled ==
  /\ failure.cancels < MaxCancels
  /\ failure' =
       IF failure.generation.status \in {"completed", "failed"}
         THEN [failure EXCEPT
                 !.cancels = failure.cancels + 1,
                 !.cancelResponse =
                    {[code |-> 400,
                      error |-> "Cannot cancel completed generation"]}]
         ELSE [failure EXCEPT
                 !.cancels = failure.cancels + 1,
                 !.generation.status = "cancelled",
                 !.generation.completedAt = {failure.now},
                 !.cancelResponse = {[code |-> 200, status |-> "cancelled"]}]
  /\ UNCHANGED <<jobVars, chat, gen, loop, res, toneRun, tts, submit>>

\* Time passes
Tick ==
  /\ failure.now < MaxClock
  /\ failure' = [failure EXCEPT !.now = failure.now + 1]
  /\ UNCHANGED <<jobVars, chat, gen, loop, res, toneRun, tts, submit>>

\* GET /status/:id
GetStatus ==
  /\ failure' = [failure EXCEPT
                   !.response = {statusResponse(failure.generation)}]
  /\ UNCHANGED <<jobVars, chat, gen, loop, res, toneRun, tts, submit>>

NextFailure ==
  \/ \E origin \in Origins : PipelineThrows(origin)
  \/ OrchestratorCatch
  \/ ControllerCatch
  \/ FailureCancelled
  \/ Tick
  \/ GetStatus

SpecFailure == Init /\ [][NextFailure]_vars

-----------------------------------------------------------------------------
(* POST /generate: generateValidation, validateRequest and the controller *)

minChapters == 1
maxChapters == 10
minDurationMin == 1
maxDurationMin == 120
maxTopicLength == 500
maxFocusLength == 1000

\* config.defaults
defaultChapters == 3
defaultDurationMin == 5

\* ResearchAgent.validateInput: topic.length < 5 is too short
minResearchTopic == 5

availableMoods == {"neutral", "excited", "calm", "reflective", "enthusiastic"}

availableStyles ==
  {"storytelling", "conversational", "interview", "educational", "narrative"}

\* The request bodies: strings for topic and focus (by length), strings for
\* mood and style, integers for chapters and durationMin, each absent or not.
Briefs ==
  [topic : {{}, {0}, {1}, {minResearchTopic}, {maxTopicLength},
            {maxTopicLength + 1}},
   focus : {{}, {0}, {maxFocusLength}, {maxFocusLength + 1}},
   mood : {{}, {"neutral"}, {"angry"}},
   style : {{}, {"interview"}, {"lecture"}},
   chapters : {{}, {minChapters - 1}, {minChapters}, {maxChapters},
               {maxChapters + 1}},
   durationMin : {{}, {minDurationMin - 1}, {minDurationMin},
                  {maxDurationMin}, {maxDurationMin + 1}}]

\* Variant of generateValidation: only the topic is looked at
generateValidation_TopicOnly(brief) ==
  {f \in {"topic"} :
     brief.topic = {} \/ \E n \in brief.topic : n < 1 \/ n > maxTopicLength}

\* The fields for which a chain of generateValidation records an error: topic
\* must be a string of 1 to 500 characters; the other fields are optional()
\* and are checked only when present.
generateValidation(brief) ==
  {f \in {"topic", "focus", "mood", "style", "chapters", "durationMin"} :
     \/ f = "topic"
        /\ (brief.topic = {}
            \/ \E n \in brief.topic : n < 1 \/ n > maxTopicLength)
     \/ f = "focus" /\ \E n \in brief.focus : n > maxFocusLength
     \/ f = "mood" /\ \E m \in brief.mood : m \notin availableMoods
     \/ f = "style" /\ \E st \in brief.style : st \notin availableStyles
     \/ f = "chapters"
        /\ \E n \in brief.chapters : n < minChapters \/ n > maxChapters
     \/ f = "durationMin"
        /\ \E n \in brief.durationMin :
             n < minDurationMin \/ n > maxDurationMin}

\* POST /generate: the validation chains run, then validateRequest hands a
\* ValidationError to next() when validationResult(req) is not empty and calls
\* the controller otherwise.
PostGenerate(brief) ==
  /\ submit.pc = "idle"
  /\ submit' = [submit EXCEPT
                  !.brief = {brief},
                  !.errors = generateValidation(brief),
                  !.pc = IF generateValidation(brief) = {} THEN "controller"
                         ELSE "errorHandler"]
  /\ UNCHANGED <<jobVars, chat, gen, loop, res, toneRun, tts, failure>>

\* errorHandler answers a ValidationError with status 400
ErrorHandler ==
  /\ submit.pc = "errorHandler"
  /\ submit' = [submit EXCEPT !.pc = "answered", !.response = 400]
  /\ UNCHANGED <<jobVars, chat, gen, loop, res, toneRun, tts, failure>>

\* PodcastController.generatePodcast: the entry is stored, processGeneration
\* is started and 202 is sent
ControllerGeneratePodcast ==
  /\ submit.pc = "controller"
  /\ submit' = [submit EXCEPT !.pc = "answered", !.response = 202,
                              !.generations = {"operationId"},
                              !.started = TRUE]
  /\ UNCHANGED <<jobVars, chat, gen, loop, res, toneRun, tts, failure>>

\* ResearchAgent.validateInput throws for a topic of the given length
researchRejects(topic) == topic = 0 \/ topic < minResearchTopic

\* ScriptAgent.validateInput throws for the given targetWords
scriptRejects(targetWords) ==
  targetWords = 0 \/ targetWords < 50 \/ targetWords > 2000

\* EditorAgent.validateInput throws for the given targetWords and tolerance
editorRejects(targetWords, tolerance) ==
  \/ targetWords = 0 \/ targetWords < 50 \/ targetWords > 5000
  \/ tolerance < 0 \/ tolerance > 10

\* TTSAgent.validateInput throws for the given chapters
ttsRejects(chapters) == chapters = 0 \/ chapters < 1 \/ chapters > 20

\* The pipeline of the accepted request, with the defaults of the controller
\* for absent fields and an outline of the request's chapters with or
\* without opening and closing: which agents' validateInput throws for the
\* input generatePodcast builds from the request (research.execute is called
\* when the request has no source)
StagesValidate ==
  /\ submit.pc = "answered"
  /\ submit.started
  /\ \E brief \in submit.brief, opening, closing \in BOOLEAN :
       LET chapters == IF brief.chapters = {} THEN defaultChapters
                       ELSE CHOOSE n \in brief.chapters : TRUE
           durationMin == IF brief.durationMin = {} THEN defaultDurationMin
                          ELSE CHOOSE n \in brief.durationMin : TRUE
           topic == CHOOSE n \in brief.topic : TRUE
           sections == parseOutlineSections(opening, chapters, closing)
           targetWords == planTargetWords(durationMin)
       IN submit' = [submit EXCEPT
            !.pc = "validated",
            !.rejectedBy =
               {a \in {"ResearchAgent", "ScriptAgent", "EditorAgent",
                        "TTSAgent"} :
                  \/ a = "ResearchAgent" /\ researchRejects(topic)
                  \/ a = "ScriptAgent"
                     /\ scriptRejects(Round(targetWords, Len(sections)))
                  \/ a = "EditorAgent"
                     /\ editorRejects(targetWords, tolerancePercent)
                  \/ a = "TTSAgent" /\ ttsRejects(chapters)}]
  /\ UNCHANGED <<jobVars, chat, gen, loop, res, toneRun, tts, failure>>

NextSubmit ==
  \/ \E brief \in Briefs : PostGenerate(brief)
  \/ ErrorHandler
  \/ ControllerGeneratePodcast
  \/ StagesValidate

SpecSubmit == Init /\ [][NextSubmit]_vars

-----------------------------------------------------------------------------
(* Claims *)

\* C1: once a job's status is completed, failed or cancelled, no later step
\* (cancel, the pipeline finishing, the pipeline failing, a progress
\* callback) changes it.
TerminalAbsorbing ==
  [][\A j \in Jobs : status[j] \in Terminal => status'[j] = status[j]]_vars

\* C2: every scratch MP3 a job writes lies in that job's own scratch
\* directory, under every interleaving of the two jobs.
ScratchExclusive ==
  \A f \in files : f.dir = f.job

\* C3: after a cancel was accepted, the step in flight may finish but no
\* further pipeline step is started for the job.
StopsAtStageBoundary ==
  [][\A j \in Jobs :
       status[j] = "cancelled" =>
         (StepOf(pc'[j]) = StepOf(pc[j]) \/ StepOf(pc'[j]) = 0)]_vars

\* C4: a job cancelled during script generation never has a final MP3.
NoFinalMp3AfterScriptCancel ==
  \A j \in Jobs : cancelledDuring[j] = "script" => j \notin finalMp3

\* C5: a completed job has its final MP3 on disk and carries metadata with the
\* probed duration; a job whose final concatenation or probe failed is never
\* completed.
CompletedOnlyAfterProbe ==
  \A j \in Jobs :
    /\ status[j] = "completed" =>
         (j \in finalMp3 /\ metadata[j].duration \in 1..MaxDuration)
    /\ local[j].thrown \in {"concat", "probe"} => status[j] # "completed"
    /\ error[j] \in {"concat", "probe"} => status[j] = "failed"

\* C5 witness: one job completed, the other failed in the duration probe
CompletedAndProbeFailure ==
  \E j, k \in Jobs :
    /\ status[j] = "completed" /\ metadata[j].duration >= 1
    /\ status[k] = "failed" /\ error[k] = "probe"

\* C6: the pipeline steps are started one after the other in their order;
\* once a step failed no step is started; the job then ends failed with the
\* error recorded, and stays failed.
StagesForward ==
  [][\A j \in Jobs :
       /\ (StepOf(pc'[j]) # StepOf(pc[j]) /\ StepOf(pc'[j]) # 0)
            => StepOf(pc'[j]) = StepOf(pc[j]) + 1
       /\ local[j].thrown # "none" => StepOf(pc'[j]) = 0
       /\ (pc[j] = "thrown" /\ pc'[j] # "thrown")
            => (status'[j] = "failed" /\ error'[j] = local[j].thrown)
       /\ status[j] = "failed" => (status'[j] = "failed" /\ error'[j] = error[j])
    ]_vars

\* C6 witness: a job that failed in the tone step, five steps in
FailedInToneStep ==
  \E j \in Jobs :
    status[j] = "failed" /\ error[j] = "tone" /\ stepsCompleted[j] = 5

TerminalHasNoScratch ==
  \A j \in Jobs : status[j] \in Terminal => j \notin dirs

\* C10: at most maxConcurrentAgents script calls of a job are pending; calls
\* are issued only when no call of the previous batch is pending any more,
\* and never once the script step was left.
BoundedFanOut ==
  [][\A j \in Jobs :
       /\ Cardinality(inflight'[j]) <= maxConcurrentAgents
       /\ (inflight'[j] \ inflight[j] # {})
            => /\ inflight'[j] \cap inflight[j] = {}
               /\ Cardinality(inflight[j]) <= 1
               /\ pc'[j] = "script"
       /\ (local[j].thrown # "none" \/ pc[j] \notin {"outline", "script"})
            => inflight'[j] \subseteq inflight[j]
    ]_vars

\* C10 witness: the second batch of a job is pending
SecondBatchPending ==
  \E j \in Jobs : pc[j] = "script" /\ local[j].batchNo = 2 /\ inflight[j] # {}

\* C12: one chatComplete call sends at most maxRetries chat-completion
\* requests to the backend in total, and exactly one when the first request
\* failed with status 400, 401 or 403.
AtMostMaxRetriesRequests ==
  /\ chat.requests <= maxRetries
  /\ chat.first \in NonRetryable => chat.requests = 1

ScriptsInSectionOrder ==
  /\ \A i \in 1..Len(gen.scripts) : gen.scripts[i] = [script |-> i]
  /\ gen.pc = "returned" => Len(gen.scripts) = Len(gen.sections)

\* C11 witness: the scripts were returned after the calls of the last batch
\* resolved against their order
ReturnedAfterReversedArrival ==
  /\ gen.pc = "returned"
  /\ Len(gen.arrival) >= 2
  /\ gen.arrival[1] > gen.arrival[2]

\* C15: for an outline that holds exactly the chapters of the brief, the
\* script stage makes one ScriptAgent call per chapter of the brief, each
\* with targetWords = round(durationMin * 150 / chapters), whether or not the
\* outline also has an opening and a closing section.
OneCallPerBriefChapter ==
  (/\ gen.pc = "returned"
   /\ Cardinality({i \in 1..Len(gen.sections) :
                     gen.sections[i].type = "chapter"}) = gen.chapters)
    => /\ Len(gen.calls) = gen.chapters
       /\ \A i \in 1..Len(gen.calls) :
            gen.calls[i].targetWords =
              Round(gen.durationMin * wordsPerMinute, gen.chapters)

\* C14: a word-count loop makes at most maxAttempts model calls; it returns
\* the first response within tolerance, and when all maxAttempts responses
\* miss the tolerance it returns the response of the last of these calls.
LoopMakesAtMostThreeCalls ==
  /\ loop.calls <= maxAttempts
  /\ loop.pc = "returned" =>
       /\ \A k \in 1..(loop.returned - 1) :
            ~WithinTolerance(loop.wordCounts[k], loop.targetWords,
                             loop.tolerance)
       /\ \/ WithinTolerance(loop.wordCounts[loop.returned], loop.targetWords,
                             loop.tolerance)
          \/ loop.returned = maxAttempts

ShortSourceGoesToModel ==
  \A sc \in res.sourceContent :
    sc.wordCount < minWords =>
      /\ res.modelCalls = 1
      /\ \A r \in res.research : r # sourceResearch(sc)

\* C18: after fetchContent threw, the job is not failed by that error: exactly
\* one ResearchAgent.execute call is made, and when it returns step 3 begins
\* with its notes.
FetchFailureFallsBack ==
  res.fetchFailed =>
    /\ res.thrown # "fetch"
    /\ res.modelCalls = 1
    /\ res.pc \in {"research", "outline", "catch"}
    /\ res.pc = "catch" => res.thrown = "research"
    /\ res.pc = "outline" => \E notes \in {"notes1", "notes2"} :
                               res.research = {[model |-> notes]}

\* C18 witness: step 3 was reached with the notes of the model after the
\* fetch of an HTML page failed
OutlineAfterFailedFetch ==
  /\ res.pc = "outline"
  /\ res.fetchFailed
  /\ res.contentType = "text/html"
  /\ res.modelCalls = 1


\* C19: every utterance of a result the tone agent returns has speaker host1 or
\* host2 and a tone of the closed tone set or one of the historical synonyms
\* (sad, hopeful, empathetic, angry); a bracketed tag outside that set never
\* becomes a tone.
TonesAndSpeakersClosed ==
  toneRun.pc = "returned" =>
    \A i \in 1..Len(toneRun.utterances) :
      /\ toneRun.utterances[i].speaker \in {"host1", "host2"}
      /\ toneRun.utterances[i].tone
           \in closedToneSet \cup availableTones \cup {"empathetic"}

\* C20: in every parsing strategy the utterances cut from one block of dialogue
\* carry one speaker and one tone, and the indices are 0, 1, 2, ... in parse
\* order.
BlockSharesSpeakerAndTone ==
  toneRun.pc \in {"parsed", "returned"} =>
    /\ \A i \in 1..Len(toneRun.utterances) :
         toneRun.utterances[i].index = i - 1
    /\ \A i, j \in 1..Len(toneRun.utterances) :
         toneRun.utterances[i].block = toneRun.utterances[j].block =>
           /\ toneRun.utterances[i].speaker = toneRun.utterances[j].speaker
           /\ toneRun.utterances[i].tone = toneRun.utterances[j].tone


\* The line of the content that token i stands on.
lineOfToken(content, i) ==
  1 + Cardinality({p \in 1..(i - 1) : content[p].k = "nl"})

\* The line of the content an utterance was cut from.
utteranceLine(content, u) ==
  IF strategyOf(content) \in {"hostTone", "legacy"}
    THEN lineOfToken(content, u.block)
    ELSE u.block

\* The content is a tone script: every line starts with a host label.
IsHostScript(content) ==
  /\ Len(content) > 0
  /\ \A n \in 1..Len(splitLines(content)) :
       /\ Len(splitLines(content)[n]) > 0
       /\ splitLines(content)[n][1].k = "host"

\* Line n of a tone script carries a tag right after its label.
IsTaggedLine(content, n) ==
  /\ Len(splitLines(content)[n]) >= 2
  /\ splitLines(content)[n][2].k = "tag"

\* C21: in a tone script that mixes tagged and untagged host lines, every host
\* line that has text after its label yields at least one utterance, spoken by
\* that line's host.
NoHostLineDropped ==
  (/\ toneRun.pc \in {"parsed", "returned", "thrown"}
   /\ IsHostScript(toneRun.content)
   /\ \E n \in 1..Len(splitLines(toneRun.content)) :
        IsTaggedLine(toneRun.content, n)
   /\ \E n \in 1..Len(splitLines(toneRun.content)) :
        ~IsTaggedLine(toneRun.content, n))
  => \A n \in 1..Len(splitLines(toneRun.content)) :
       Len(splitLines(toneRun.content)[n]) >= 2 =>
         \E i \in 1..Len(toneRun.utterances) :
           /\ utteranceLine(toneRun.content, toneRun.utterances[i]) = n
           /\ toneRun.utterances[i].speaker
                = hostSpeaker(splitLines(toneRun.content)[n][1].v)


\* TTSAgent.execute returned its result.
TtsExecuteReturned ==
  tts.chapters >= 1 /\ Len(tts.chapterFiles) = tts.chapters

\* C22: a failed synthesis or write is fatal.  Every chapter file was made of
\* all the utterance files of its group, the final MP3 exists only after
\* execute returned, an error leaves no final MP3 and ends the run thrown, and
\* when execute returned every utterance was synthesized exactly once, with
\* the voice of its speaker.
TtsFailureIsFatal ==
  /\ \A c \in 1..Len(tts.chapterFiles) :
       /\ Len(tts.chapterFiles[c].inputs) = Len(ttsGroups(tts)[c])
       /\ Range(tts.chapterFiles[c].inputs)
            = {utterancePath(c, ttsGroups(tts)[c][k].index) :
                 k \in 1..Len(ttsGroups(tts)[c])}
  /\ tts.finalMp3 => TtsExecuteReturned
  /\ tts.thrown # "none" => tts.pc = "thrown" /\ ~tts.finalMp3
  /\ TtsExecuteReturned =>
       tts.speechCalls
         = [k \in 1..Len(tts.utterances) |->
              [index |-> tts.utterances[k].index,
               voice |-> IF tts.utterances[k].speaker = "host1"
                           THEN "alloy" ELSE "echo"]]

\* The second utterance of a chapter could not be synthesized or written.
TtsFailedAfterFirstUtterance ==
  /\ tts.pc = "thrown"
  /\ tts.thrown = "TTS generation failed for utterance"
  /\ Len(tts.utteranceFiles) = 1
  /\ tts.pos = 2
  /\ tts.chapterFiles = <<>>

\* C23: the chapter concatenations are issued in chapter order, each after the
\* one before it finished, each with its chapter's utterance files in index
\* order; the final concatenation takes the chapter files in chapter order,
\* after the jingle exactly when the jingle file exists.
TtsOrderPreserved ==
  /\ Len(tts.concatCalls) <= Len(tts.chapterFiles) + 1
  /\ \A n \in 1..Len(tts.concatCalls) :
       IF n <= tts.chapters
         THEN /\ tts.concatCalls[n].output = chapterPath(n)
              /\ tts.concatCalls[n].inputs
                   = [k \in 1..Len(ttsGroups(tts)[n]) |->
                        utterancePath(n, ttsGroups(tts)[n][k].index)]
              /\ \A k \in 1..(Len(ttsGroups(tts)[n]) - 1) :
                   ttsGroups(tts)[n][k].index < ttsGroups(tts)[n][k + 1].index
         ELSE /\ tts.concatCalls[n].output = finalAudioPath
              /\ tts.concatCalls[n].inputs
                   = (IF tts.jingle = "exists" THEN <<jinglePath>> ELSE <<>>)
                       \o [c \in 1..tts.chapters |-> chapterPath(c)]
  /\ tts.jingle = "unread" <=> Len(tts.concatCalls) <= tts.chapters

\* A final file of two chapters, the first of two utterances, behind the jingle.
TtsStitchedWithJingle ==
  /\ tts.pc = "stitched"
  /\ tts.jingle = "exists"
  /\ tts.chapters = 2
  /\ Len(tts.chapterFiles[1].inputs) = 2


\* The error kind a failure of the given step is to be reported with.
kindOfStep(step) ==
  IF step \in {"concat", "probe"} THEN "audio"
  ELSE IF step = "tts" THEN "tts"
  ELSE "agent"

\* The error kind a status response states ("none": it states no kind).
responseKind(response) ==
  IF "kind" \in DOMAIN response THEN response.kind
  ELSE IF "code" \in DOMAIN response THEN response.code
  ELSE "none"

\* C24: the status of a failed job states the kind of the failure, audio for
\* a concatenation or probe failure and agent for an agent that gave up, beside
\* the message.
FailureKindSurfaced ==
  \A response \in failure.response :
    response.status = "failed" =>
      /\ failure.origin \in {"concat", "probe", "planner", "script"} =>
           responseKind(response) = kindOfStep(failure.origin)
      /\ response.error # {}


\* The brief breaks one of the constraints the specification lists.
ViolatesConstraint(brief) ==
  \/ brief.topic = {} \/ \E n \in brief.topic : n = 0 \/ n > 500
  \/ \E n \in brief.focus : n > 1000
  \/ \E m \in brief.mood :
       m \notin {"neutral", "excited", "calm", "reflective", "enthusiastic"}
  \/ \E st \in brief.style :
       st \notin {"storytelling", "conversational", "interview",
                  "educational", "narrative"}
  \/ \E n \in brief.chapters : n < 1 \/ n > 10
  \/ \E n \in brief.durationMin : n < 1 \/ n > 120

CancelIdempotent ==
  [][(/\ failure'.cancels > failure.cancels
      /\ failure.generation.status \in Terminal)
     => /\ failure'.generation = failure.generation
        /\ \A r \in failure'.cancelResponse :
             "status" \in DOMAIN r => r.status = failure.generation.status]_vars


\* the names the progress callback receives, in pipeline order, after the
\* 'initializing' that processGeneration stores itself
StageOrder ==
  <<"initializing", "planning", "research", "outlining", "scripting",
    "tone-enhancement", "editing", "audio-generation", "audio-stitching">>

\* C27: a job's stored stepsCompleted never decreases and never exceeds the
\* total of 7; the step name only ever moves to the next stage of the
\* pipeline, with the count the callback of that stage carries; and while a
\* job is inside a stage, the callback of that stage has been delivered.
ProgressMonotone ==
  /\ [](\A j \in Jobs :
          StepOf(pc[j]) > 0 => currentStep[j] = StageOrder[StepOf(pc[j]) + 1])
  /\ [][\A j \in Jobs :
          /\ stepsCompleted'[j] >= stepsCompleted[j]
          /\ stepsCompleted'[j] <= totalSteps
          /\ currentStep'[j] # currentStep[j] =>
               \/ currentStep[j] = "none" /\ currentStep'[j] = StageOrder[1]
                                          /\ stepsCompleted'[j] = 0
               \/ \E i \in 1..(Len(StageOrder) - 1) :
                    /\ currentStep[j] = StageOrder[i]
                    /\ currentStep'[j] = StageOrder[i + 1]
                    /\ stepsCompleted'[j] = Min(i, totalSteps)]_vars

\* C27 witness: a completed job whose last callback was that of the stitching
\* stage, with all seven steps counted
CompletedAfterAllCallbacks ==
  \E j \in Jobs :
    /\ status[j] = "completed"
    /\ currentStep[j] = "audio-stitching"
    /\ stepsCompleted[j] = totalSteps


\* C28: the accuracy stored in a job's metadata is the bucket that section 4.4
\* assigns to the deviation of the final word count from the target:
\* excellent up to 5%, good up to 10%, fair up to 20%, poor beyond.
AccuracyIsTimingBucket ==
  loop.pc = "completed" =>
    loop.accuracy = timingBalance(finalWordCount(loop), loop.targetWords)

\* C29: when the editor has returned its final script, and so for every job
\* that completes, the script's spoken-word count is within 15% of the target.
FinalScriptWithinLenientGate ==
  (loop.agent = "editor" /\ loop.pc \in {"executed", "completed"}) =>
    Abs(finalWordCount(loop) - loop.targetWords) * 100
      <= 15 * loop.targetWords

\* C30: EditorAgent.execute does not return a final script whose content is
\* 100 characters or shorter or contains TODO or [INSERT.
BrokenScriptRejected ==
  loop.pc \in {"executed", "completed"} =>
    \A c \in loop.content : c.long /\ ~c.todo /\ ~c.insert


\* C31: with USE_FOUNDRY_AGENTS=false a chatComplete call never runs the
\* remote agent, whatever agent id and endpoint are configured: no request is
\* one of createAndProcessRun, no run fails and no response is the agent's.
FoundryDisabledGoesDirect ==
  (chat.pc # "idle" /\ ~chat.useFoundryAgents) =>
    /\ chat.site # "run"
    /\ ~chat.runFailed
    /\ chat.result # "foundry"


\* C32: what the TTS stage synthesizes is the dialogue of the editor's final
\* script, and the word count of the metadata, finalScript.wordCount, is the
\* number of words in the utterances handed to synthesis.
SpokenTextIsFinalScript ==
  tts.pc # "idle" =>
    /\ tts.utterances = tts.finalScript.lines
    /\ tts.finalScript.wordCount = Len(tts.utterances) * UtteranceWords


\* the groups of a grouping, one after the other
RECURSIVE concatGroups(_)
concatGroups(groups) ==
  IF Len(groups) = 0 THEN <<>>
  ELSE Head(groups) \o concatGroups(Tail(groups))

\* C33: with at least as many utterances as chapters, the grouping of
\* TTSAgent.execute has one non-empty group per chapter, the groups in order
\* make up the utterance sequence, and execute does not throw 'No utterances
\* provided for chapter'.
EveryChapterHasUtterances ==
  (tts.pc # "idle" /\ Len(tts.utterances) >= tts.chapters) =>
    /\ Len(ttsGroups(tts)) = tts.chapters
    /\ \A i \in 1..Len(ttsGroups(tts)) : Len(ttsGroups(tts)[i]) > 0
    /\ concatGroups(ttsGroups(tts)) = tts.utterances
    /\ tts.thrown # "No utterances provided for chapter"


\* C34: for a request that submission validation accepted, no agent's
\* validateInput throws on the input the pipeline builds from the request's
\* topic, chapters and durationMin.
AcceptedBriefPassesStages ==
  submit.pc = "validated" => submit.rejectedBy = {}


\* C36: the chapterNumber values of the script calls of one job differ from
\* section to section, and a section without a number of its own is called
\* with its 1-based position in the outline.
ChapterNumbersUnique ==
  \A i, k \in 1..Len(gen.calls) :
    /\ i # k => gen.calls[i].chapterNumber # gen.calls[k].chapterNumber
    /\ gen.sections[gen.calls[i].section].number = 0 =>
         gen.calls[i].chapterNumber = gen.calls[i].section


\* C35: when every call a job awaits returns, a job that was accepted and is
\* processing reaches a terminal status: completed, failed or cancelled.
EveryJobTerminates ==
  \A j \in Jobs : (status[j] = "processing") ~> (status[j] \in Terminal)

\* C35 witness: both jobs were accepted and have ended, one completed and the
\* other failed, with nothing of their pipelines left to run
BothJobsEnded ==
  /\ status["A"] = "completed" /\ pc["A"] = "done"
  /\ status["B"] = "failed" /\ pc["B"] = "done"

=============================================================================
